---- MODULE Spec2Model ----
(***************************************************************************)
(* fdw: dependency resolution of Windows PE images.                        *)
(*                                                                         *)
(* The model follows src/src/search.rs (find_dll, get_dll_dependencies,    *)
(* get_dll_dependencies_recursive, resolve_dependencies), the outcome of   *)
(* src/src/pe.rs parse_pe per kind of image, and src/src/apiset.rs         *)
(* APISet::map.  Strings are sequences of one-character strings, so that   *)
(* lowercasing, prefix and suffix tests are computed, not assumed.         *)
(***************************************************************************)
EXTENDS Integers, Sequences, FiniteSets, TLC

(***************************************************************************)
(* Bounds of the model.                                                    *)
(***************************************************************************)
\* the deepest call stack of get_dll_dependencies_recursive the model follows
MaxDepth == 8

(***************************************************************************)
(* Strings.                                                                *)
(***************************************************************************)
UpperChars == <<"A","B","C","D","E","F","G","H","I","J","K","L","M",
                "N","O","P","Q","R","S","T","U","V","W","X","Y","Z">>
LowerChars == <<"a","b","c","d","e","f","g","h","i","j","k","l","m",
                "n","o","p","q","r","s","t","u","v","w","x","y","z">>

\* u8::to_ascii_lowercase: only A..Z change
LowerChar(c) ==
    IF \E k \in 1..26 : UpperChars[k] = c
    THEN LowerChars[CHOOSE k \in 1..26 : UpperChars[k] = c]
    ELSE c

\* str::to_ascii_lowercase
to_ascii_lowercase(s) == [k \in 1..Len(s) |-> LowerChar(s[k])]

\* str::ends_with
ends_with(s, suffix) ==
    /\ Len(suffix) <= Len(s)
    /\ SubSeq(s, Len(s) - Len(suffix) + 1, Len(s)) = suffix

\* str::starts_with
starts_with(s, prefix) ==
    /\ Len(prefix) <= Len(s)
    /\ SubSeq(s, 1, Len(prefix)) = prefix

DotExe == <<".","e","x","e">>
DotDll == <<".","d","l","l">>
\* the marker the engine writes for a library it did not find
Unknown == <<"<","u","n","k","n","o","w","n",">">>
ApiPrefix == <<"a","p","i","-","m","s","-","w","i","n","-">>

\* file names and import names of the modelled installation
AExe == <<"a">> \o DotExe
BExe == <<"b">> \o DotExe
BExeUpper == <<"B">> \o <<".","E","X","E">>
CExe == <<"c">> \o DotExe
HDll == <<"h">> \o DotDll
HDllMixed == <<"H">> \o DotDll
MDll == <<"m">> \o DotDll
VDll == ApiPrefix \o <<"v">> \o DotDll
UDll == ApiPrefix \o <<"u">> \o DotDll

(***************************************************************************)
(* Paths and the file system.                                              *)
(* A path is the text the program holds: a directory text and a file name. *)
(* PathBuf equality and hashing compare the text, component by component.  *)
(* Mount gives the directory a directory text names: two texts may name    *)
(* the same directory.                                                     *)
(***************************************************************************)
Path(dir, file_name) == [dir |-> dir, file_name |-> file_name]

\* PathBuf::from("<unknown>") and the like: a bare file name
BarePath(file_name) == Path("", file_name)

UnknownPath == BarePath(Unknown)

\* directory texts that name a directory that can be enumerated
Mount == [d \in {"/app", "/sys/../app", "/sys"} |->
            IF d = "/sys" THEN "sys" ELSE "app"]

\* std::fs::read_dir: the entries of a directory in enumeration order, or an error
read_dir(disk, dir) ==
    IF dir \in DOMAIN Mount
    THEN [ok |-> TRUE, entries |-> disk[Mount[dir]]]
    ELSE [ok |-> FALSE, entries |-> <<>>]

\* the directory entry a path names, if any
EntryIndex(disk, path) ==
    IF path.dir \in DOMAIN Mount
    THEN {k \in 1..Len(disk[Mount[path.dir]]) :
             disk[Mount[path.dir]][k].file_name = path.file_name}
    ELSE {}

\* std::fs::exists
exists(disk, path) == EntryIndex(disk, path) # {}

\* the file behind a path: directory and name, whatever text named the directory
FileOf(path) ==
    IF path.dir \in DOMAIN Mount
    THEN <<Mount[path.dir], path.file_name>>
    ELSE <<"none", path.file_name>>

Image(disk, path) ==
    disk[Mount[path.dir]][CHOOSE k \in EntryIndex(disk, path) : TRUE].image

(***************************************************************************)
(* parse_pe, by what it returns for each kind of image.                    *)
(* An image is [defect, dll_names]: dll_names are the library names of its *)
(* import descriptors in descriptor order, defect is the first structural  *)
(* fault a parse meets ("none" for a well-formed image).                   *)
(***************************************************************************)
Defects == {"none", "dos_magic", "nt_signature", "optional_magic",
            "section_name_in_string_table", "import_rva_unmapped",
            "import_table_truncated", "name_rva_unmapped", "name_truncated"}

ParseOk(dll_names) == [kind |-> "ok", reason |-> "", dll_names |-> dll_names]
ParseErr(reason) == [kind |-> "err", reason |-> reason, dll_names |-> <<>>]
\* todo!() and expect() unwind through every caller: nothing is returned
ParsePanic(reason) == [kind |-> "panic", reason |-> reason, dll_names |-> <<>>]

\* DOSHeader::from_parser
DOSHeader_from_parser(image) ==
    IF image.defect = "dos_magic" THEN ParseErr("Invalid DOS magic number")
    ELSE ParseOk(<<>>)

\* NTHeader::from_parser
NTHeader_from_parser(image) ==
    IF image.defect = "nt_signature"
    THEN ParseErr("Invalid PE signature in NT Header")
    ELSE ParseOk(<<>>)

\* SectionHeader::from_parser: a name starting with "/" is not implemented
SectionHeader_from_parser(image) ==
    IF image.defect = "section_name_in_string_table"
    THEN ParsePanic("not yet implemented: section header name in string table")
    ELSE ParseOk(<<>>)

\* parse_import_descriptors
parse_import_descriptors(image) ==
    IF image.defect = "import_rva_unmapped"
    THEN ParseErr("Import Table RVA does not map to any section")
    ELSE IF image.defect = "import_table_truncated"
    THEN ParsePanic("Cannot parse ImageImportDescriptor from the Import Table")
    ELSE ParseOk(<<>>)

\* parse_dll_names
parse_dll_names(image) ==
    IF image.defect = "name_rva_unmapped"
    THEN ParseErr("Import Descriptor Name RVA does not map to any section")
    ELSE IF image.defect = "name_truncated"
    THEN ParseErr("failed to fill whole buffer")
    ELSE ParseOk(image.dll_names)

\* parse_pe: the checks in the order of the code
parse_pe(disk, file_path) ==
    IF ~exists(disk, file_path) THEN ParseErr("File does not exist")
    ELSE IF ~ends_with(file_path.file_name, DotExe)
    THEN ParseErr("File is not an executable (.exe)")
    ELSE LET image == Image(disk, file_path) IN
         IF DOSHeader_from_parser(image).kind # "ok"
         THEN DOSHeader_from_parser(image)
         ELSE IF NTHeader_from_parser(image).kind # "ok"
         THEN NTHeader_from_parser(image)
         ELSE IF image.defect = "optional_magic"
         THEN ParseErr("Invalid PE optional header magic")
         ELSE IF SectionHeader_from_parser(image).kind # "ok"
         THEN SectionHeader_from_parser(image)
         ELSE IF parse_import_descriptors(image).kind # "ok"
         THEN parse_import_descriptors(image)
         ELSE parse_dll_names(image)

(***************************************************************************)
(* The API-Set mapping: a table from virtual name to host name.            *)
(***************************************************************************)
\* APISet::map: HashMap::get with the key as given
APISet_map(apiset, dll_name) ==
    IF dll_name \in DOMAIN apiset
    THEN [some |-> TRUE, value |-> apiset[dll_name]]
    ELSE [some |-> FALSE, value |-> <<>>]

\* apiset::find_dll
apiset_find_dll(dll_name, apiset) == APISet_map(apiset, dll_name)

\* apiset::is_dll_from_apiset_schema: the virtual-library naming convention
is_dll_from_apiset_schema(dll_name) == starts_with(dll_name, ApiPrefix)

(***************************************************************************)
(* find_dll: the first regular file, scanning the search paths in order    *)
(* and each directory in enumeration order, whose name ends with name.     *)
(***************************************************************************)
\* the scan of a directory that takes entries of any kind
RECURSIVE ScanEntries_AnyKind(_, _, _, _)
ScanEntries_AnyKind(entries, k, dir, name) ==
    IF k > Len(entries) THEN [ok |-> FALSE, path |-> UnknownPath]
    ELSE IF ends_with(entries[k].file_name, name)
    THEN [ok |-> TRUE, path |-> Path(dir, entries[k].file_name)]
    ELSE ScanEntries_AnyKind(entries, k + 1, dir, name)

RECURSIVE ScanEntries(_, _, _, _)
ScanEntries(entries, k, dir, name) ==
    IF k > Len(entries) THEN [ok |-> FALSE, path |-> UnknownPath]
    ELSE IF ~entries[k].is_file THEN ScanEntries(entries, k + 1, dir, name)
    ELSE IF ends_with(entries[k].file_name, name)
    THEN [ok |-> TRUE, path |-> Path(dir, entries[k].file_name)]
    ELSE ScanEntries(entries, k + 1, dir, name)

RECURSIVE ScanPaths(_, _, _, _)
ScanPaths(disk, search_paths, k, name) ==
    IF k > Len(search_paths) THEN [ok |-> FALSE, path |-> UnknownPath]
    ELSE LET listing == read_dir(disk, search_paths[k]) IN
         IF ~listing.ok THEN ScanPaths(disk, search_paths, k + 1, name)
         ELSE LET hit == ScanEntries(listing.entries, 1, search_paths[k], name) IN
              IF hit.ok THEN hit
              ELSE ScanPaths(disk, search_paths, k + 1, name)

find_dll(disk, name, search_paths) == ScanPaths(disk, search_paths, 1, name)

(***************************************************************************)
(* The result: json objects with name, path and dependencies.              *)
(* dependencies is absent, an array of objects or a string.                *)
(***************************************************************************)
NoError == [what |-> "none", path |-> UnknownPath, reason |-> ""]

DepsAbsent == [tag |-> "absent", items |-> <<>>, error |-> NoError]
DepsArray(items) == [tag |-> "array", items |-> items, error |-> NoError]
\* format!("Failed to resolve dependencies: {e}")
DepsString(e) == [tag |-> "string", items |-> <<>>, error |-> e]

Object(name, path, dependencies) ==
    [name |-> name, path |-> path, dependencies |-> dependencies]

\* "Circular dependency detected in dll: {path}"
CircularError(path) == [what |-> "circular", path |-> path, reason |-> ""]
\* "Failed to parse PE \"{path}\" ({err})"
ParseError(path, reason) == [what |-> "parse", path |-> path, reason |-> reason]

\* pe_path.file_name() lowercased
pe_name_of(pe_path) == to_ascii_lowercase(pe_path.file_name)

NoObject == Object(<<>>, UnknownPath, DepsAbsent)

\* Result<json::JsonValue, Box<dyn Error>>
Ok(value) == [ok |-> TRUE, value |-> value, error |-> NoError]
Err(e) == [ok |-> FALSE, value |-> NoObject, error |-> e]

(***************************************************************************)
(* The installations the model explores.                                   *)
(***************************************************************************)
Entry(file_name, image) ==
    [file_name |-> file_name, is_file |-> TRUE, image |-> image]

WellFormed(dll_names) == [defect |-> "none", dll_names |-> dll_names]

\* the import lists the three images of /app may declare
RootImports == { <<>>, <<BExeUpper, CExe>>, <<MDll, BExe>>,
                 <<HDllMixed, VDll>>, <<AExe>>, <<UDll, CExe>>, <<BExe, VDll>> }
BImports == { <<>>, <<AExe>>, <<CExe>>, <<HDll, MDll>> }
CImports == { <<>>, <<MDll>>, <<AExe>>, <<BExe, HDll>> }

\* at most one image of /app is damaged
Damages == { [file |-> "none", defect |-> "none"] }
           \cup [file : {"a"}, defect : {"dos_magic", "import_table_truncated"}]
           \cup [file : {"b"}, defect : {"nt_signature", "name_rva_unmapped",
                                         "section_name_in_string_table",
                                         "import_table_truncated"}]

DefectOf(damage, file) == IF damage.file = file THEN damage.defect ELSE "none"

Disk(a, b, c, damage) ==
    [d \in {"app", "sys"} |->
        IF d = "app"
        THEN << Entry(AExe, [defect |-> DefectOf(damage, "a"), dll_names |-> a]),
                Entry(BExe, [defect |-> DefectOf(damage, "b"), dll_names |-> b]),
                Entry(CExe, WellFormed(c)) >>
        ELSE << Entry(HDll, WellFormed(<<>>)),
                Entry(UDll, WellFormed(<<>>)) >>]

Disks == { Disk(a, b, c, damage) :
             a \in RootImports, b \in BImports, c \in CImports, damage \in Damages }

\* API-Set mappings: keys and values are lowercase
EmptyAPISet == [n \in {} |-> <<>>]
APISets == { EmptyAPISet, [n \in {VDll} |-> HDll], [n \in {VDll} |-> BExe] }

\* the root as the caller names it, with the search locations of the call
Calls == { [pe_path |-> Path("/app", AExe), search_paths |-> <<"/app", "/gone", "/sys">>],
           [pe_path |-> Path("/sys/../app", AExe), search_paths |-> <<"/sys/../app", "/sys">>],
           [pe_path |-> Path("/sys/../app", AExe), search_paths |-> <<"/gone", "/app", "/sys">>],
           [pe_path |-> Path("/app", MDll), search_paths |-> <<"/app", "/sys">>],
           [pe_path |-> Path("/sys", HDll), search_paths |-> <<"/sys", "/app">>] }

(***************************************************************************)
(* State.                                                                  *)
(***************************************************************************)
VARIABLES
    disk,           \* the files on disk
    apiset_schema,  \* the API-Set mapping handed to resolve_dependencies
    pe_path,        \* the root image as the caller names it
    search_paths,   \* the search locations, in order
    recurse,        \* the mode
    pc,             \* "start", "flat", "running", "done" or "panic"
    stack,          \* the frames of get_dll_dependencies_recursive, innermost last
    cache,          \* HashMap<PathBuf, JsonValue>
    visited,        \* HashSet<PathBuf>
    result,         \* what resolve_dependencies returned
    parses,         \* how often parse_pe was called, per file
    searched        \* the names find_dll was called with

\* the state of the operations around the engine: main's search list, the
\* PE reader and the API-Set lookup, each followed step by step further down
VARIABLES
    env_path,           \* main: the entries of PATH, in order
    user_search_paths,  \* main: the text given with --search-paths
    main_pc,            \* main: "idle", "parent", "path", "user", "resolve", "found"
    found,              \* main: what find_dll answered over the list main built
    file,               \* parse_pe: the file at file_path
    pe_header,          \* parse_pe: the header fields read so far
    cursor,             \* io::Cursor position, in bytes
    pe_pc,              \* the reader's position in its code, "idle" when unused
    build,              \* "debug" (overflow checks) or "release" (wrapping)
    outcome,            \* what the operation under study returned
    reads,              \* the structures read so far, with the offset of each
    import_table,       \* parse_import_descriptors: the descriptors at the table's offset
    descriptors,        \* parse_import_descriptors: the Vec being filled
    sections,           \* convert_rva_to_file_offset: pe.sections
    rva,                \* convert_rva_to_file_offset: the address to translate
    asked_name          \* the import name the API-Set lookup is asked about

others == <<env_path, user_search_paths, main_pc, found, file, pe_header, cursor, pe_pc,
            build, outcome, reads, import_table, descriptors, sections, rva,
            asked_name>>

\* everything a resolve leaves alone: its inputs and the operations around it
world == <<disk, apiset_schema, pe_path, search_paths, recurse, others>>
vars == <<disk, apiset_schema, pe_path, search_paths, recurse,
          pc, stack, cache, visited, result, parses, searched, others>>

NoOutcome == [kind |-> "none"]

\* main has not started
MainIdle ==
    /\ env_path = <<>>
    /\ user_search_paths = <<>>
    /\ main_pc = "idle"
    /\ found = NoOutcome

\* no file is being read
ReaderIdle ==
    /\ file = NoOutcome
    /\ pe_header = NoOutcome
    /\ cursor = 0
    /\ pe_pc = "idle"
    /\ build = "release"
    /\ outcome = NoOutcome
    /\ reads = <<>>
    /\ import_table = <<>>
    /\ descriptors = <<>>
    /\ sections = <<>>
    /\ rva = 0
    /\ asked_name = <<>>

NoResult == [kind |-> "none", value |-> NoObject, error |-> NoError]

\* a failure of the root is handed back as an annotated node
Returned_Annotated(r) ==
    [kind |-> "ok",
     value |-> IF r.ok THEN r.value
               ELSE Object(<<>>, r.error.path, DepsString(r.error)),
     error |-> NoError]

\* what the caller of resolve_dependencies gets: Ok(tree) or Err(error)
Returned(r) ==
    [kind |-> IF r.ok THEN "ok" ELSE "err", value |-> r.value, error |-> r.error]

EmptyCache == [p \in {} |-> NoObject]
NoParses == [f \in {} |-> 0]

Init ==
    /\ disk \in Disks
    /\ apiset_schema \in APISets
    /\ \E call \in Calls :
          /\ pe_path = call.pe_path
          /\ search_paths = call.search_paths
    /\ recurse \in BOOLEAN
    /\ pc = "start"
    /\ stack = <<>>
    /\ cache = EmptyCache
    /\ visited = {}
    /\ result = NoResult
    /\ parses = NoParses
    /\ searched = {}
    /\ MainIdle
    /\ ReaderIdle

\* one more parse_pe call of the file behind path
CountParse(count, path) ==
    IF FileOf(path) \in DOMAIN count
    THEN [count EXCEPT ![FileOf(path)] = @ + 1]
    ELSE count @@ (FileOf(path) :> 1)

(***************************************************************************)
(* resolve_dependencies: the entry point.                                  *)
(***************************************************************************)
Frame(path) ==
    [pe_path |-> path, phase |-> "enter", dll_names |-> <<>>, i |-> 1,
     dependencies |-> <<>>, lower |-> <<>>, resolved_path |-> UnknownPath]

resolve_dependencies ==
    /\ pc = "start"
    /\ IF recurse
       THEN /\ pc' = "running"
            /\ stack' = <<Frame(pe_path)>>
       ELSE /\ pc' = "flat"
            /\ stack' = stack
    /\ cache' = EmptyCache
    /\ visited' = {}
    /\ UNCHANGED <<world, result, parses, searched>>

(***************************************************************************)
(* get_dll_dependencies: the non-recursive mode.                           *)
(***************************************************************************)
\* the new object goes in front of the earlier ones
Push_Front(vec, object) == <<object>> \o vec

\* Vec::push
Push(vec, object) == Append(vec, object)

\* the name the non-recursive mode searches the locations for
FlatSearchName(lower, apiset) ==
    IF is_dll_from_apiset_schema(lower)
    THEN IF apiset_find_dll(lower, apiset).some
         THEN apiset_find_dll(lower, apiset).value
         ELSE Unknown
    ELSE lower

\* the path a search gives, "<unknown>" when nothing is found
PathOrUnknown(hit) == IF hit.ok THEN hit.path ELSE UnknownPath

\* the entry of a file found carries the imports of that file as children
FlatEntry_WithChildren(d, dll_name, paths, apiset) ==
    LET lower == to_ascii_lowercase(dll_name)
        hit == find_dll(d, FlatSearchName(lower, apiset), paths)
        names == IF hit.ok THEN parse_pe(d, hit.path).dll_names ELSE <<>>
    IN Object(lower, PathOrUnknown(hit),
              IF names = <<>> THEN DepsAbsent
              ELSE DepsArray([k \in 1..Len(names) |->
                      Object(to_ascii_lowercase(names[k]), UnknownPath, DepsAbsent)]))

\* the object pushed for one import in non-recursive mode
FlatEntry(d, dll_name, paths, apiset) ==
    LET lower == to_ascii_lowercase(dll_name) IN
    Object(lower,
           PathOrUnknown(find_dll(d, FlatSearchName(lower, apiset), paths)),
           DepsAbsent)

\* dependencies_array after the first k rounds of the loop over pe.dll_names
RECURSIVE FlatLoop(_, _, _, _, _)
FlatLoop(d, dll_names, k, paths, apiset) ==
    IF k = 0 THEN <<>>
    ELSE Push(FlatLoop(d, dll_names, k - 1, paths, apiset),
              FlatEntry(d, dll_names[k], paths, apiset))

FlatEntries(d, dll_names, paths, apiset) ==
    FlatLoop(d, dll_names, Len(dll_names), paths, apiset)

FlatSearched(dll_names, apiset) ==
    { FlatSearchName(to_ascii_lowercase(dll_names[k]), apiset) :
        k \in 1..Len(dll_names) }

get_dll_dependencies ==
    /\ pc = "flat"
    /\ LET pe == parse_pe(disk, pe_path) IN
       /\ parses' = CountParse(parses, pe_path)
       /\ IF pe.kind = "panic"
          THEN /\ pc' = "panic"
               /\ UNCHANGED <<result, searched>>
          ELSE IF pe.kind = "err"
          THEN /\ pc' = "done"
               /\ result' = Returned(Err(ParseError(pe_path, pe.reason)))
               /\ UNCHANGED searched
          ELSE /\ pc' = "done"
               /\ result' = Returned(Ok(Object(
                     pe_name_of(pe_path), pe_path,
                     DepsArray(FlatEntries(disk, pe.dll_names, search_paths,
                                           apiset_schema)))))
               /\ searched' = searched \cup FlatSearched(pe.dll_names, apiset_schema)
    /\ UNCHANGED <<world, stack, cache, visited>>

(***************************************************************************)
(* get_dll_dependencies_recursive, one action per step of a frame.         *)
(***************************************************************************)
Top == stack[Len(stack)]
Callers == SubSeq(stack, 1, Len(stack) - 1)

\* the cache never answers
CacheGet_Miss(c, path) == [some |-> FALSE, value |-> NoObject]

\* a hit hands out the cached object without its children
CacheGet_Childless(c, path) ==
    IF path \in DOMAIN c
    THEN [some |-> TRUE, value |-> Object(c[path].name, c[path].path, DepsArray(<<>>))]
    ELSE [some |-> FALSE, value |-> NoObject]

\* cache.get(pe_path)
CacheGet(c, path) ==
    IF path \in DOMAIN c THEN [some |-> TRUE, value |-> c[path]]
    ELSE [some |-> FALSE, value |-> NoObject]

\* the insertion reports every path as new: the cycle guard never fires
VisitedInsert_AlwaysNew(v, path) == [inserted |-> TRUE, set |-> v \cup {path}]

\* visited.insert(pe_path): whether the path was new, and the set afterwards
VisitedInsert(v, path) == [inserted |-> path \notin v, set |-> v \cup {path}]

\* cache.insert(pe_path, result)
CacheInsert(c, path, node) ==
    IF path \in DOMAIN c THEN [c EXCEPT ![path] = node]
    ELSE c @@ (path :> node)

\* the object the caller's loop pushes for what the call returned
DepObject(r, lower, resolved_path) ==
    IF r.ok THEN r.value
    ELSE Object(lower, resolved_path, DepsString(r.error))

\* the object pushed for an import find_dll did not find
NotFoundObject(lower) == Object(lower, UnknownPath, DepsAbsent)

\* the name the recursive mode searches the locations for
ActualDllName(lower, apiset) ==
    IF is_dll_from_apiset_schema(lower)
    THEN IF apiset_find_dll(lower, apiset).some
         THEN apiset_find_dll(lower, apiset).value
         ELSE lower
    ELSE lower

\* the innermost frame returns r: its caller pushes the object and goes on
\* with its next import; with no caller, resolve_dependencies returns r.
Return(r) ==
    IF Callers = <<>>
    THEN /\ stack' = <<>>
         /\ result' = Returned(r)
         /\ pc' = "done"
    ELSE LET caller == Callers[Len(Callers)] IN
         /\ stack' = [Callers EXCEPT ![Len(Callers)] =
                [caller EXCEPT
                    !.dependencies =
                        Push(@, DepObject(r, caller.lower, caller.resolved_path)),
                    !.i = @ + 1,
                    !.phase = "loop"]]
         /\ UNCHANGED <<result, pc>>

Entering == pc = "running" /\ stack # <<>> /\ Top.phase = "enter"
Looping == pc = "running" /\ stack # <<>> /\ Top.phase = "loop"

\* the path is cached: the cached node is returned
CacheHit ==
    /\ Entering
    /\ CacheGet(cache, Top.pe_path).some
    /\ Return(Ok(CacheGet(cache, Top.pe_path).value))
    /\ UNCHANGED <<world, cache, visited, parses, searched>>

\* the path is already in the visited set: an error is returned
CircularDependency ==
    /\ Entering
    /\ ~CacheGet(cache, Top.pe_path).some
    /\ ~VisitedInsert(visited, Top.pe_path).inserted
    /\ Return(Err(CircularError(Top.pe_path)))
    /\ UNCHANGED <<world, cache, visited, parses, searched>>

\* the file is parsed
Parse ==
    /\ Entering
    /\ ~CacheGet(cache, Top.pe_path).some
    /\ VisitedInsert(visited, Top.pe_path).inserted
    /\ visited' = VisitedInsert(visited, Top.pe_path).set
    /\ parses' = CountParse(parses, Top.pe_path)
    /\ LET pe == parse_pe(disk, Top.pe_path) IN
       IF pe.kind = "panic"
       THEN /\ pc' = "panic"
            /\ UNCHANGED <<stack, result>>
       ELSE IF pe.kind = "err"
       THEN Return(Err(ParseError(Top.pe_path, pe.reason)))
       ELSE /\ stack' = [stack EXCEPT ![Len(stack)] =
                   [Top EXCEPT !.phase = "loop", !.dll_names = pe.dll_names]]
            /\ UNCHANGED <<result, pc>>
    /\ UNCHANGED <<world, cache, searched>>

\* one import is looked up; a file found is resolved by a recursive call
Import ==
    /\ Looping
    /\ Top.i <= Len(Top.dll_names)
    /\ LET lower == to_ascii_lowercase(Top.dll_names[Top.i])
           actual_dll_name == ActualDllName(lower, apiset_schema)
           hit == find_dll(disk, actual_dll_name, search_paths)
       IN /\ searched' = searched \cup {actual_dll_name}
          /\ IF hit.ok
             THEN /\ Len(stack) < MaxDepth
                  /\ stack' = Append(
                        [stack EXCEPT ![Len(stack)] =
                            [Top EXCEPT !.phase = "call", !.lower = lower,
                                        !.resolved_path = hit.path]],
                        Frame(hit.path))
             ELSE stack' = [stack EXCEPT ![Len(stack)] =
                        [Top EXCEPT !.dependencies = Push(@, NotFoundObject(lower)),
                                    !.i = @ + 1]]
    /\ UNCHANGED <<world, pc, cache, visited, result, parses>>

\* the loop is over: the node is built, cached and returned
Finish ==
    /\ Looping
    /\ Top.i > Len(Top.dll_names)
    /\ LET node == Object(pe_name_of(Top.pe_path), Top.pe_path,
                          DepsArray(Top.dependencies))
       IN /\ visited' = visited \ {Top.pe_path}
          /\ cache' = CacheInsert(cache, Top.pe_path, node)
          /\ Return(Ok(node))
    /\ UNCHANGED <<world, parses, searched>>

Next ==
    \/ resolve_dependencies
    \/ get_dll_dependencies
    \/ CacheHit
    \/ CircularDependency
    \/ Parse
    \/ Import
    \/ Finish

Spec == Init /\ [][Next]_vars

\* The walk is synchronous: every step of the recursive mode that can be
\* taken is taken.  The installations of this specification are those of Init with a cycle, a
\* self-import or a shared library in them.
LiveDisks == { Disk(a, b, c, damage) :
                 a \in { <<BExeUpper, CExe>>, <<AExe>>, <<MDll, BExe>> },
                 b \in BImports, c \in CImports,
                 damage \in { [file |-> "none", defect |-> "none"],
                              [file |-> "b", defect |-> "nt_signature"],
                              [file |-> "b", defect |-> "import_table_truncated"] } }

LiveInit ==
    /\ Init
    /\ disk \in LiveDisks
    /\ apiset_schema = EmptyAPISet
    /\ pe_path.file_name = AExe

\* a step of the recursive mode
RecursiveStep ==
    \/ resolve_dependencies
    \/ CacheHit
    \/ CircularDependency
    \/ Parse
    \/ Import
    \/ Finish

FairSpec == LiveInit /\ [][Next]_vars /\ WF_vars(RecursiveStep)

TypeOK ==
    /\ pc \in {"start", "flat", "running", "done", "panic"}
    /\ Len(stack) <= MaxDepth
    /\ result.kind \in {"none", "ok", "err"}

(***************************************************************************)
(* Vocabulary of the properties.                                           *)
(***************************************************************************)
Done == pc = "done"
ReturnedTree == Done /\ result.kind = "ok"
Tree == result.value

\* the children of an object
Items(node) == node.dependencies.items

\* every object of a tree, the root included
RECURSIVE NodesOf(_)
NodesOf(node) ==
    {node} \cup UNION { NodesOf(Items(node)[k]) : k \in 1..Len(Items(node)) }

\* how many objects of a tree carry the path
RECURSIVE SumOver(_, _)
RECURSIVE Occurrences(_, _)
SumOver(items, path) ==
    IF items = <<>> THEN 0
    ELSE Occurrences(Head(items), path) + SumOver(Tail(items), path)
Occurrences(node, path) ==
    (IF node.path = path THEN 1 ELSE 0) + SumOver(Items(node), path)

IsCircularLeaf(node) ==
    node.dependencies.tag = "string" /\ node.dependencies.error.what = "circular"
IsParseFailureLeaf(node) ==
    node.dependencies.tag = "string" /\ node.dependencies.error.what = "parse"
IsNotFound(node) ==
    node.path = UnknownPath /\ node.dependencies.tag = "absent"

\* the paths of the frames below the innermost one: the node whose import is
\* being resolved and its ancestors
ActivePaths == { Callers[k].pe_path : k \in 1..Len(Callers) }

\* the import graph of the installation, as the recursive mode walks it
ImportTargets(path) ==
    LET pe == parse_pe(disk, path) IN
    IF pe.kind # "ok" THEN {}
    ELSE { find_dll(disk,
                    ActualDllName(to_ascii_lowercase(pe.dll_names[k]), apiset_schema),
                    search_paths).path :
             k \in { j \in 1..Len(pe.dll_names) :
                       find_dll(disk,
                                ActualDllName(to_ascii_lowercase(pe.dll_names[j]),
                                              apiset_schema),
                                search_paths).ok } }

\* the least set that holds paths and the import targets of its members
RECURSIVE Closure(_)
Closure(paths) ==
    LET more == paths \cup UNION { ImportTargets(p) : p \in paths } IN
    IF more = paths THEN paths ELSE Closure(more)

Reachable == Closure({pe_path})
Acyclic == \A p \in Reachable : p \notin Closure(ImportTargets(p))
EveryFileParses == \A p \in Reachable : parse_pe(disk, p).kind = "ok"
NoPanickingFile == \A p \in Reachable : parse_pe(disk, p).kind # "panic"

(***************************************************************************)
(* C1. A top-level recursive resolve ends after finitely many steps, for   *)
(* every import relation, cycles and self-imports included: it returns,    *)
(* unless a parse panics, and then the walk is aborted at that parse.      *)
(***************************************************************************)
RecursiveResolveTerminates ==
    /\ recurse => <>(pc \in {"done", "panic"})
    /\ (recurse /\ NoPanickingFile) => <>(pc = "done")

\* a resolve of an installation with a cycle has returned, the cycle cut
CycleResolved ==
    /\ ReturnedTree /\ recurse /\ ~Acyclic
    /\ \E n \in NodesOf(Tree) : IsCircularLeaf(n)

(***************************************************************************)
(* C2. In recursive mode a child is emitted as a circular-reference leaf   *)
(* exactly when, at the moment it is reached, its path is on the active    *)
(* recursion stack and not in the cache, and then the file is not parsed   *)
(* again; a path that is no longer on the stack is never reported as       *)
(* circular.                                                               *)
(***************************************************************************)
\* this step makes the caller push a circular-reference leaf for the path reached
EmitsCircularLeaf ==
    /\ Len(stack) > 1
    /\ Len(stack') = Len(stack) - 1
    /\ LET before == Callers[Len(Callers)].dependencies
           after == stack'[Len(stack')].dependencies
       IN /\ Len(after) = Len(before) + 1
          /\ IsCircularLeaf(after[Len(after)])
          /\ after[Len(after)].dependencies.error.path = Top.pe_path

CircularExactlyWhenOnStack ==
    [][ Entering =>
          /\ EmitsCircularLeaf <=>
                (Top.pe_path \in ActivePaths /\ Top.pe_path \notin DOMAIN cache)
          /\ EmitsCircularLeaf => parses' = parses ]_vars

(***************************************************************************)
(* C3. In recursive mode, for an acyclic import graph in which every file  *)
(* parses, all occurrences of one resolved path in the result tree carry   *)
(* equal nodes: the node the cache holds for that path.                    *)
(***************************************************************************)
SharedNodesAreEqual ==
    (ReturnedTree /\ recurse /\ Acyclic /\ EveryFileParses) =>
        \A n \in NodesOf(Tree) :
            n.path # UnknownPath =>
                /\ n.path \in DOMAIN cache
                /\ cache[n.path] = n
                /\ \A m \in NodesOf(Tree) : m.path = n.path => m = n

\* a library with imports of its own occurs twice in the tree of such a graph
SharedSubtreeReturned ==
    /\ ReturnedTree /\ recurse /\ Acyclic /\ EveryFileParses
    /\ \E n \in NodesOf(Tree) :
          /\ n.path # UnknownPath
          /\ Items(n) # <<>>
          /\ Occurrences(Tree, n.path) > 1

(***************************************************************************)
(* C4. Within one top-level recursive resolve each file is parsed at most  *)
(* once, whatever texts name it: the root as the caller typed it and the   *)
(* path the search builds for the same file are one entry.                 *)
(***************************************************************************)
EachFileParsedOnce ==
    recurse => \A f \in DOMAIN parses : parses[f] <= 1

(***************************************************************************)
(* C5. In recursive mode, when a dependency cannot be located or its file  *)
(* fails to parse for any reason, the parent gets one annotated leaf for   *)
(* that import, the later imports are still resolved and the top-level     *)
(* resolve returns a tree instead of aborting.                             *)
(***************************************************************************)
\* the root parses, so every failure is that of a dependency
RootParses == parse_pe(disk, pe_path).kind = "ok"

DependencyFailureIsALeaf ==
    (recurse /\ RootParses) =>
        /\ pc # "panic"
        /\ Done => /\ result.kind = "ok"
                   /\ Len(Items(Tree)) = Len(parse_pe(disk, pe_path).dll_names)

SearchNames(lower) ==
    {lower} \cup (IF lower \in DOMAIN apiset_schema
                  THEN {apiset_schema[lower]} ELSE {})

\* the child is the entry of the import: not found under its declared name,
\* or a file on disk whose name ends with a name the import is searched under
ChildOfImport(child, dll_name) ==
    LET lower == to_ascii_lowercase(dll_name) IN
    \/ IsNotFound(child) /\ child.name = lower
    \/ /\ child.path # UnknownPath
       /\ exists(disk, child.path)
       /\ \E name \in SearchNames(lower) : ends_with(child.path.file_name, name)

OneChildPerImport ==
    ReturnedTree =>
        \A n \in NodesOf(Tree) :
            n.dependencies.tag = "array" =>
                LET pe == parse_pe(disk, n.path) IN
                /\ pe.kind = "ok"
                /\ Len(Items(n)) = Len(pe.dll_names)
                /\ \A k \in 1..Len(pe.dll_names) :
                      ChildOfImport(Items(n)[k], pe.dll_names[k])

\* a node whose first import is not found and whose second is
NotFoundThenFound ==
    /\ ReturnedTree
    /\ Len(Items(Tree)) = 2
    /\ IsNotFound(Items(Tree)[1])
    /\ ~IsNotFound(Items(Tree)[2])

(***************************************************************************)
(* C8. In non-recursive mode the tree has depth 1: no dependency entry of  *)
(* the root has children, whatever the dependency files import.            *)
(***************************************************************************)
FlatTreeHasDepthOne ==
    (ReturnedTree /\ ~recurse) =>
        /\ Tree.dependencies.tag = "array"
        /\ \A k \in 1..Len(Items(Tree)) :
              /\ Items(Tree)[k].dependencies.tag = "absent"
              /\ Items(Items(Tree)[k]) = <<>>

\* a non-recursive resolve returned an entry for a file that has imports
FlatEntryOfImportingFile ==
    /\ ReturnedTree /\ ~recurse
    /\ \E k \in 1..Len(Items(Tree)) :
          /\ Items(Tree)[k].path # UnknownPath
          /\ parse_pe(disk, Items(Tree)[k].path).kind = "ok"
          /\ parse_pe(disk, Items(Tree)[k].path).dll_names # <<>>

(***************************************************************************)
(* C9. In both modes, when an image imports a real library H and a virtual *)
(* name V that the API-Set mapping sends to H, the two entries have equal  *)
(* resolved paths and their names are the two declared names, lowercased.  *)
(***************************************************************************)
DeclaredNamesKept ==
    ReturnedTree =>
        LET dll_names == parse_pe(disk, pe_path).dll_names IN
        \A h, v \in 1..Len(dll_names) :
            LET lower_h == to_ascii_lowercase(dll_names[h])
                lower_v == to_ascii_lowercase(dll_names[v])
            IN (/\ ~is_dll_from_apiset_schema(lower_h)
                /\ is_dll_from_apiset_schema(lower_v)
                /\ lower_v \in DOMAIN apiset_schema
                /\ apiset_schema[lower_v] = lower_h)
               => /\ Items(Tree)[h].path = Items(Tree)[v].path
                  /\ Items(Tree)[h].name = lower_h
                  /\ Items(Tree)[v].name = lower_v

(***************************************************************************)
(* C10. In both modes, an import whose lowercased name is virtual and has  *)
(* no entry in the API-Set mapping gets a not-found entry, and no file     *)
(* name is searched in the search locations for it.                        *)
(***************************************************************************)
Unmapped(lower) ==
    is_dll_from_apiset_schema(lower) /\ lower \notin DOMAIN apiset_schema

UnmappedVirtualIsNotSearched ==
    /\ \A name \in searched : name # Unknown /\ ~Unmapped(name)
    /\ ReturnedTree =>
          LET dll_names == parse_pe(disk, pe_path).dll_names IN
          \A k \in 1..Len(dll_names) :
              Unmapped(to_ascii_lowercase(dll_names[k])) =>
                  /\ IsNotFound(Items(Tree)[k])
                  /\ Items(Tree)[k].name = to_ascii_lowercase(dll_names[k])

(***************************************************************************)
(* The state of the engine while another operation is followed on its own. *)
(***************************************************************************)
EngineIdle ==
    /\ apiset_schema = EmptyAPISet
    /\ recurse = FALSE
    /\ pc = "idle"
    /\ stack = <<>>
    /\ cache = EmptyCache
    /\ visited = {}
    /\ result = NoResult
    /\ parses = NoParses
    /\ searched = {}

engine == <<apiset_schema, recurse, pc, stack, cache, visited, result, parses,
            searched>>
reader == <<file, pe_header, cursor, pe_pc, build, outcome, reads, import_table,
            descriptors, sections, rva>>

(***************************************************************************)
(* main: the search locations handed to resolve_dependencies.              *)
(* PATH is the sequence of its entries; the --search-paths text is a       *)
(* sequence of symbols, a directory text or the separator.                 *)
(***************************************************************************)
MaxPath == 2

Separator == ";"

\* PathBuf::exists: a directory that can be listed, or a file
path_exists(fs, text) ==
    \/ text \in DOMAIN Mount
    \/ text = "/sys/h.dll" /\ exists(fs, Path("/sys", HDll))

\* a location that exists is put in front of the list
push_existing_Front(paths, fs, text) ==
    IF path_exists(fs, text) THEN <<text>> \o paths ELSE paths

\* if !path.exists() { continue; } search_paths.push(path)
push_existing(paths, fs, text) ==
    IF path_exists(fs, text) THEN Append(paths, text) ELSE paths

\* str::split(";"): the pieces between the separators, empty ones included
RECURSIVE split(_)
split(text) ==
    IF \A k \in 1..Len(text) : text[k] # Separator THEN <<text>>
    ELSE LET k == CHOOSE i \in 1..Len(text) :
                      /\ text[i] = Separator
                      /\ \A j \in 1..(i - 1) : text[j] # Separator
         IN <<SubSeq(text, 1, k - 1)>> \o split(SubSeq(text, k + 1, Len(text)))

\* PathBuf::from_str of a piece of at most one symbol
PieceText(piece) == IF piece = <<>> THEN "" ELSE piece[1]

\* the pieces main walks: none when the text is empty
UserPieces(text) == IF text = <<>> THEN <<>> ELSE split(text)

\* Path::parent of --file, as text
Parent(file_path) == file_path.dir

MainAt(at, k) == [at |-> at, k |-> k]

\* the files of /app and /sys: a.exe and, in each, some of the two libraries
MainDisk(app, sys) ==
    [d \in {"app", "sys"} |->
        IF d = "app"
        THEN <<Entry(AExe, WellFormed(<<HDll, MDll>>))>>
             \o (IF HDll \in app THEN <<Entry(HDll, WellFormed(<<>>))>> ELSE <<>>)
             \o (IF MDll \in app THEN <<Entry(MDll, WellFormed(<<>>))>> ELSE <<>>)
        ELSE (IF MDll \in sys THEN <<Entry(MDll, WellFormed(<<>>))>> ELSE <<>>)
             \o (IF HDll \in sys THEN <<Entry(HDll, WellFormed(<<>>))>> ELSE <<>>)]

MainDisks == { MainDisk(app, sys) : app \in SUBSET {HDll, MDll},
                                    sys \in {{HDll}, {HDll, MDll}, {}} }

PathEntries == {"/sys", "/gone", "/sys/h.dll"}
EnvPaths == UNION { [1..n -> PathEntries] : n \in 0..MaxPath }

UserTexts == { <<>>, <<"/sys">>, <<"/gone", Separator, "/sys">>,
               <<"/sys", Separator>>, <<"/sys/../app", Separator, Separator, "/sys">> }

MainInit ==
    /\ disk \in MainDisks
    /\ pe_path \in {Path("/app", AExe), Path("/sys/../app", AExe), BarePath(AExe)}
    /\ env_path \in EnvPaths
    /\ user_search_paths \in UserTexts
    /\ search_paths = <<>>
    /\ main_pc = MainAt("parent", 0)
    /\ found = NoOutcome
    /\ asked_name = <<>>
    /\ EngineIdle
    /\ file = NoOutcome /\ pe_header = NoOutcome /\ cursor = 0 /\ pe_pc = "idle"
    /\ build = "release" /\ outcome = NoOutcome /\ reads = <<>>
    /\ import_table = <<>> /\ descriptors = <<>> /\ sections = <<>> /\ rva = 0

\* main.rs 71-79: the directory of --file goes first
PushParent ==
    /\ main_pc.at = "parent"
    /\ search_paths' = Append(search_paths, Parent(pe_path))
    /\ main_pc' = MainAt("path", 1)
    /\ UNCHANGED <<disk, pe_path, env_path, user_search_paths, found, asked_name,
                   engine, reader>>

\* main.rs 83-97: one entry of PATH, kept when it exists
PushPathEntry ==
    /\ main_pc.at = "path"
    /\ IF main_pc.k > Len(env_path)
       THEN /\ main_pc' = MainAt("user", 1)
            /\ UNCHANGED search_paths
       ELSE /\ main_pc' = MainAt("path", main_pc.k + 1)
            /\ search_paths' = push_existing(search_paths, disk, env_path[main_pc.k])
    /\ UNCHANGED <<disk, pe_path, env_path, user_search_paths, found, asked_name,
                   engine, reader>>

\* main.rs 101-123: one piece of --search-paths, kept when it exists
PushUserEntry ==
    /\ main_pc.at = "user"
    /\ LET pieces == UserPieces(user_search_paths) IN
       IF main_pc.k > Len(pieces)
       THEN /\ main_pc' = MainAt("resolve", 0)
            /\ UNCHANGED search_paths
       ELSE /\ main_pc' = MainAt("user", main_pc.k + 1)
            /\ search_paths' = push_existing(search_paths, disk,
                                              PieceText(pieces[main_pc.k]))
    /\ UNCHANGED <<disk, pe_path, env_path, user_search_paths, found, asked_name,
                   engine, reader>>

\* main.rs 125-133: the list is handed to resolve_dependencies, which asks
\* find_dll for the names the root imports
SearchOverList ==
    /\ main_pc.at = "resolve"
    /\ \E name \in {HDll, MDll} :
          /\ asked_name' = name
          /\ found' = find_dll(disk, name, search_paths)
    /\ main_pc' = MainAt("found", 0)
    /\ UNCHANGED <<disk, pe_path, env_path, user_search_paths, search_paths,
                   engine, reader>>

MainNext == PushParent \/ PushPathEntry \/ PushUserEntry \/ SearchOverList

MainSpec == MainInit /\ [][MainNext]_vars

(***************************************************************************)
(* C11. The search locations handed to resolve are the root image's parent *)
(* directory, then the PATH entries that exist in PATH order, then the     *)
(* user-supplied entries that exist in the order given; a name that can be *)
(* resolved in the root's directory resolves to the file there, whatever   *)
(* the later locations hold.                                               *)
(***************************************************************************)
RECURSIVE Existing(_, _)
Existing(fs, texts) ==
    IF texts = <<>> THEN <<>>
    ELSE (IF path_exists(fs, Head(texts)) THEN <<Head(texts)>> ELSE <<>>)
         \o Existing(fs, Tail(texts))

UserTextsOf(text) ==
    [k \in 1..Len(UserPieces(text)) |-> PieceText(UserPieces(text)[k])]

\* some regular file of the directory answers to the name
ResolvableIn(fs, dir, name) ==
    LET listing == read_dir(fs, dir) IN
    /\ listing.ok
    /\ \E k \in 1..Len(listing.entries) :
          /\ listing.entries[k].is_file
          /\ ends_with(listing.entries[k].file_name, name)

WellFormedFile(path) ==
    exists(disk, path) /\ Image(disk, path).defect = "none"

FoundLibrariesAreParsed ==
    (ReturnedTree /\ recurse) =>
        \A node \in NodesOf(Tree) :
            (node.path # UnknownPath /\ WellFormedFile(node.path)) =>
                /\ ~IsParseFailureLeaf(node)
                /\ node.dependencies.tag = "array" =>
                      Len(Items(node)) = Len(Image(disk, node.path).dll_names)

(***************************************************************************)
(* parse_import_descriptors, one descriptor per step.                      *)
(* import_table holds the descriptors the file has from the offset of the  *)
(* import table up to its end; pe_header.import_table is that offset, as   *)
(* convert_rva_to_file_offset gave it.                                     *)
(***************************************************************************)
MaxDescriptors == 258

\* if descriptors.len() > 256
ImportCap == 256

\* five u32 fields
DescriptorSize == 20

Descriptor(lookup, stamp, chain, name, iat) ==
    [import_lookup_table_rva |-> lookup, time_date_stamp |-> stamp,
     forwarder_chain |-> chain, name_rva |-> name,
     import_address_table_rva |-> iat]

ZeroDescriptor == Descriptor(0, 0, 0, 0, 0)

\* the k-th descriptor of a table: one field holds k, which one turns with k
NonZeroDescriptor(k) ==
    Descriptor(IF k % 5 = 0 THEN k ELSE 0, IF k % 5 = 1 THEN k ELSE 0,
               IF k % 5 = 2 THEN k ELSE 0, IF k % 5 = 3 THEN k ELSE 0,
               IF k % 5 = 4 THEN k ELSE 0)

\* n descriptors, the sentinel or not, and what the file holds after it
ImportTable(n, sentinel, tail) ==
    [k \in 1..n |-> NonZeroDescriptor(k)]
    \o (IF sentinel THEN <<ZeroDescriptor>> ELSE <<>>)
    \o [k \in 1..tail |-> NonZeroDescriptor(n + k)]

ImportTables ==
    { ImportTable(n, TRUE, tail) : n \in 0..MaxDescriptors, tail \in {0, 1} }
    \cup { ImportTable(n, FALSE, 0) : n \in 0..MaxDescriptors }

Some(value) == [some |-> TRUE, value |-> value]
None == [some |-> FALSE, value |-> 0]

\* a descriptor without a name ends the table
is_zeroed_out_NameOnly(descriptor) == descriptor.name_rva = 0

is_zeroed_out(descriptor) ==
    /\ descriptor.import_lookup_table_rva = 0
    /\ descriptor.time_date_stamp = 0
    /\ descriptor.forwarder_chain = 0
    /\ descriptor.name_rva = 0
    /\ descriptor.import_address_table_rva = 0

\* ImageImportDescriptor::from_parser at the cursor: the descriptor, or the
\* error of a read past the end of the file
ImageImportDescriptor_from_parser(table, offset, position) ==
    LET k == (position - offset) \div DescriptorSize + 1 IN
    IF k <= Len(table) THEN [ok |-> TRUE, descriptor |-> table[k]]
    ELSE [ok |-> FALSE, descriptor |-> ZeroDescriptor]

ImportInit ==
    /\ import_table \in ImportTables
    /\ pe_header \in { [import_table |-> Some(1024)], [import_table |-> None] }
    /\ (pe_header.import_table = None) => import_table = ImportTable(1, TRUE, 0)
    /\ cursor = 0
    /\ pe_pc = "import_table"
    /\ descriptors = <<>>
    /\ outcome = NoOutcome
    /\ build = "release" /\ file = NoOutcome /\ reads = <<>>
    /\ sections = <<>> /\ rva = 0 /\ asked_name = <<>>
    /\ MainIdle
    /\ EngineIdle
    /\ disk = MainDisk({}, {}) /\ pe_path = BarePath(AExe) /\ search_paths = <<>>

\* pe.rs 785-791: the table's RVA becomes a file offset, or the parse fails
OpenImportTable ==
    /\ pe_pc = "import_table"
    /\ IF pe_header.import_table.some
       THEN /\ cursor' = pe_header.import_table.value
            /\ pe_pc' = "descriptors"
            /\ UNCHANGED outcome
       ELSE /\ outcome' = [kind |-> "err",
                           reason |-> "Import Table RVA does not map to any section"]
            /\ pe_pc' = "done"
            /\ UNCHANGED cursor
    /\ UNCHANGED <<disk, pe_path, search_paths, engine, env_path, user_search_paths,
                   main_pc, found, file, pe_header, build, reads, import_table,
                   descriptors, sections, rva, asked_name>>

\* pe.rs 793-806: one turn of the loop
ReadImportDescriptor ==
    /\ pe_pc = "descriptors"
    /\ LET read == ImageImportDescriptor_from_parser(
                       import_table, pe_header.import_table.value, cursor)
       IN IF ~read.ok
          THEN /\ pe_pc' = "panic"
               /\ outcome' = [kind |-> "panic",
                              reason |-> "Cannot parse ImageImportDescriptor from the Import Table"]
               /\ UNCHANGED <<cursor, descriptors>>
          ELSE /\ cursor' = cursor + DescriptorSize
               /\ IF is_zeroed_out(read.descriptor)
                  THEN /\ pe_pc' = "done"
                       /\ outcome' = [kind |-> "ok", reason |-> ""]
                       /\ UNCHANGED descriptors
                  ELSE /\ descriptors' = Append(descriptors, read.descriptor)
                       /\ IF Len(descriptors') > ImportCap
                          THEN /\ pe_pc' = "done"
                               /\ outcome' = [kind |-> "ok", reason |-> ""]
                          ELSE UNCHANGED <<pe_pc, outcome>>
    /\ UNCHANGED <<disk, pe_path, search_paths, engine, env_path, user_search_paths,
                   main_pc, found, file, pe_header, build, reads, import_table,
                   sections, rva, asked_name>>

ImportNext == OpenImportTable \/ ReadImportDescriptor

ImportSpec == ImportInit /\ [][ImportNext]_vars

(***************************************************************************)
(* C13. For every N from 0 to the cap, a table of N descriptors that are   *)
(* not all-zero followed by an all-zero descriptor parses to exactly those *)
(* N descriptors in order, whatever follows the zero descriptor.           *)
(***************************************************************************)
AllZero(descriptor) == \A field \in DOMAIN descriptor : descriptor[field] = 0

\* the first all-zero descriptor of the table comes after n others
SentinelAfter(table, n) ==
    /\ n + 1 <= Len(table)
    /\ AllZero(table[n + 1])
    /\ \A k \in 1..n : ~AllZero(table[k])

ParsedImportTable == pe_pc \in {"done", "panic"} /\ pe_header.import_table.some

StopsAtZeroDescriptor ==
    \A n \in 0..ImportCap :
        (ParsedImportTable /\ SentinelAfter(import_table, n)) =>
            /\ outcome.kind = "ok"
            /\ descriptors = SubSeq(import_table, 1, n)

\* as many descriptors as the cap allows, a zero descriptor and one more
CapDescriptorsReturned ==
    /\ ParsedImportTable
    /\ SentinelAfter(import_table, ImportCap)
    /\ Len(import_table) > ImportCap + 1
    /\ Len(descriptors) = ImportCap

(***************************************************************************)
(* Fixed-width integers.                                                   *)
(* A u32 is two 16-bit limbs and a u64 four, least significant first, so   *)
(* that every 32- and 64-bit value can be written and the arithmetic wraps *)
(* where the machine's does.                                               *)
(***************************************************************************)
Limb == 65536

u32(high, low) == <<low, high>>
u64(n) == <<n % Limb, n \div Limb, 0, 0>>

\* `as u64` of a u32
as_u64(a) == a \o <<0, 0>>

\* the sum modulo the width
RECURSIVE wrapping_add(_, _, _)
wrapping_add(a, b, carry) ==
    IF a = <<>> THEN <<>>
    ELSE LET s == Head(a) + Head(b) + carry IN
         <<s % Limb>> \o wrapping_add(Tail(a), Tail(b), s \div Limb)

\* the sum does not fit the width
RECURSIVE add_overflows(_, _, _)
add_overflows(a, b, carry) ==
    IF a = <<>> THEN carry > 0
    ELSE add_overflows(Tail(a), Tail(b), (Head(a) + Head(b) + carry) \div Limb)

\* the difference modulo the width
RECURSIVE wrapping_sub(_, _, _)
wrapping_sub(a, b, borrow) ==
    IF a = <<>> THEN <<>>
    ELSE LET d == Head(a) - Head(b) - borrow IN
         <<(d + Limb) % Limb>>
         \o wrapping_sub(Tail(a), Tail(b), IF d < 0 THEN 1 ELSE 0)

\* a < b
RECURSIVE less(_, _)
less(a, b) ==
    IF a = <<>> THEN FALSE
    ELSE LET n == Len(a) IN
         \/ a[n] < b[n]
         \/ a[n] = b[n] /\ less(SubSeq(a, 1, n - 1), SubSeq(b, 1, n - 1))

\* +, as the build compiles it: a panic on overflow with overflow checks
\* (debug), the wrapped sum without (release)
checked_add(a, b, profile) ==
    IF add_overflows(a, b, 0) /\ profile = "debug"
    THEN [panic |-> TRUE, value |-> a]
    ELSE [panic |-> FALSE, value |-> wrapping_add(a, b, 0)]

\* -, likewise
checked_sub(a, b, profile) ==
    IF less(a, b) /\ profile = "debug"
    THEN [panic |-> TRUE, value |-> a]
    ELSE [panic |-> FALSE, value |-> wrapping_sub(a, b, 0)]

Builds == {"debug", "release"}

(***************************************************************************)
(* PE::convert_rva_to_file_offset over the sections in the order the map   *)
(* hands them out.                                                         *)
(***************************************************************************)
MaxSections == 2

SectionHeader(virtual_address, virtual_size, ptr_to_raw_data) ==
    [virtual_address |-> virtual_address, virtual_size |-> virtual_size,
     ptr_to_raw_data |-> ptr_to_raw_data]

RECURSIVE convert_rva_to_file_offset(_, _, _)
convert_rva_to_file_offset(values, address, profile) ==
    IF values = <<>> THEN [kind |-> "none", value |-> u64(0)]
    ELSE LET start == Head(values).virtual_address
             end == checked_add(start, Head(values).virtual_size, profile)
         IN IF end.panic THEN [kind |-> "panic", value |-> u64(0)]
            ELSE IF ~less(address, start) /\ less(address, end.value)
            THEN LET offset_in_section == as_u64(wrapping_sub(address, start, 0)) IN
                 [kind |-> "some",
                  value |-> wrapping_add(as_u64(Head(values).ptr_to_raw_data),
                                         offset_in_section, 0)]
            ELSE convert_rva_to_file_offset(Tail(values), address, profile)

\* 0, 0x1000, 0x2000, 0xFFFFF000, 0xFFFFFFFF and the like
VirtualAddresses == { u32(0, 4096), u32(0, 8192), u32(65535, 61440) }
VirtualSizes == { u32(0, 0), u32(0, 4096), u32(0, 8192) }
RawPointers == { u32(0, 1024), u32(65535, 65535) }
Rvas == { u32(0, 0), u32(0, 4096), u32(0, 6144), u32(0, 12287), u32(0, 12288),
          u32(65535, 61440), u32(65535, 63488), u32(65535, 65535) }

SectionHeaders ==
    { SectionHeader(a, s, p) :
        a \in VirtualAddresses, s \in VirtualSizes, p \in RawPointers }

RvaInit ==
    /\ sections \in UNION { [1..n -> SectionHeaders] : n \in 0..MaxSections }
    /\ rva \in Rvas
    /\ build \in Builds
    /\ pe_pc = "rva"
    /\ outcome = NoOutcome
    /\ file = NoOutcome /\ pe_header = NoOutcome /\ cursor = 0 /\ reads = <<>>
    /\ import_table = <<>> /\ descriptors = <<>> /\ asked_name = <<>>
    /\ MainIdle
    /\ EngineIdle
    /\ disk = MainDisk({}, {}) /\ pe_path = BarePath(AExe) /\ search_paths = <<>>

ConvertRva ==
    /\ pe_pc = "rva"
    /\ outcome' = convert_rva_to_file_offset(sections, rva, build)
    /\ pe_pc' = "done"
    /\ UNCHANGED <<disk, pe_path, search_paths, engine, env_path, user_search_paths,
                   main_pc, found, file, pe_header, cursor, build, reads,
                   import_table, descriptors, sections, rva, asked_name>>

RvaNext == ConvertRva

RvaSpec == RvaInit /\ [][RvaNext]_vars

(***************************************************************************)
(* C14. For all 32-bit rva, virtual_address and virtual_size: an rva in    *)
(* exactly one section's range virtual_address <= rva < virtual_address +  *)
(* virtual_size, the sum taken in the integers, translates to that         *)
(* section's ptr_to_raw_data + (rva - virtual_address); an rva in no       *)
(* section's range translates to None.                                     *)
(***************************************************************************)
\* virtual_address + virtual_size in the integers: 64 bits hold it
RangeEnd(section) ==
    wrapping_add(as_u64(section.virtual_address), as_u64(section.virtual_size), 0)

InRange(section, address) ==
    /\ ~less(address, section.virtual_address)
    /\ less(as_u64(address), RangeEnd(section))

Holding(address) == { k \in 1..Len(sections) : InRange(sections[k], address) }

FileOffset(section, address) ==
    wrapping_add(as_u64(section.ptr_to_raw_data),
                 as_u64(wrapping_sub(address, section.virtual_address, 0)), 0)

RvaTranslation ==
    (pe_pc = "done" /\ outcome.kind \in {"some", "none", "panic"}) =>
        /\ \A k \in Holding(rva) :
              Holding(rva) = {k} =>
                  outcome = [kind |-> "some", value |-> FileOffset(sections[k], rva)]
        /\ Holding(rva) = {} => outcome.kind = "none"

(***************************************************************************)
(* parse_pe, step by step over the bytes of one file.                      *)
(* file is the file at file_path: whether it exists, its name, its size    *)
(* and the header fields at the places the reader takes them from.  reads  *)
(* lists the checks made and the structures read, with the offset of each. *)
(***************************************************************************)
DOS_MAGIC == 23117            \* 0x5a4d
NT_PE_SIGNATURE == 17744      \* 0x4550
PE_FORMAT_32_MAGIC == 267     \* 0x10b
PE_FORMAT_64_MAGIC == 523     \* 0x20b

\* cursor.set_position(0x3C)
LfanewOffset == 60
\* the bytes the readers consume
COFFHeaderSize == 20
OptionalHeader32Size == 224
OptionalHeader64Size == 240
SectionHeaderSize == 40

\* a read of width bytes at position: UnexpectedEof past the end
can_read(size, position, width) == position + width <= size

Eof == "failed to fill whole buffer"

Step(what, at) == [what |-> what, at |-> at]

\* the position a u64 holds
position_of(limbs) == limbs[1] + Limb * limbs[2]

\* the DOS header is taken as it comes
read_dos_header_Unchecked(f) ==
    IF ~can_read(f.size, 0, 2) THEN [ok |-> FALSE, reason |-> Eof]
    ELSE IF ~can_read(f.size, LfanewOffset, 4) THEN [ok |-> FALSE, reason |-> Eof]
    ELSE [ok |-> TRUE, reason |-> ""]

\* DOSHeader::from_parser
read_dos_header(f) ==
    IF ~can_read(f.size, 0, 2) THEN [ok |-> FALSE, reason |-> Eof]
    ELSE IF f.magic # DOS_MAGIC
    THEN [ok |-> FALSE, reason |-> "Invalid DOS magic number"]
    ELSE IF ~can_read(f.size, LfanewOffset, 4) THEN [ok |-> FALSE, reason |-> Eof]
    ELSE [ok |-> TRUE, reason |-> ""]

\* NTHeader::from_parser at lfanew
read_nt_header(f) ==
    IF ~can_read(f.size, f.lfanew, 4) THEN [ok |-> FALSE, reason |-> Eof]
    ELSE IF f.signature # NT_PE_SIGNATURE
    THEN [ok |-> FALSE, reason |-> "Invalid PE signature in NT Header"]
    ELSE IF ~can_read(f.size, f.lfanew + 4, COFFHeaderSize)
    THEN [ok |-> FALSE, reason |-> Eof]
    ELSE [ok |-> TRUE, reason |-> ""]

Files ==
    [exists : BOOLEAN, file_name : {AExe, HDll}, size : {1, 100, 4096},
     magic : {DOS_MAGIC, 0}, lfanew : {128, 5000},
     signature : {NT_PE_SIGNATURE, 0},
     optional_magic : {PE_FORMAT_32_MAGIC, PE_FORMAT_64_MAGIC, 0},
     number_of_sections : {0, 2},
     section : {"named", "empty", "in_string_table", "raw_data_short"},
     size_of_optional_header : {0, 223, 224, 239, 240, 241, 65535}]

PeInit ==
    /\ file \in Files
    /\ build \in Builds
    /\ pe_pc = "exists"
    /\ pe_header = [start_of_optional_position |-> 0, optional_size |-> 0,
                    sections_read |-> 0]
    /\ cursor = 0
    /\ outcome = NoOutcome
    /\ reads = <<>>
    /\ import_table = <<>> /\ descriptors = <<>> /\ sections = <<>> /\ rva = 0
    /\ asked_name = <<>>
    /\ MainIdle
    /\ EngineIdle
    /\ disk = MainDisk({}, {}) /\ pe_path = BarePath(AExe) /\ search_paths = <<>>

PeFails(reason) ==
    /\ pe_pc' = "done"
    /\ outcome' = [kind |-> "err", reason |-> reason]

PeFrame == <<disk, pe_path, search_paths, engine, env_path, user_search_paths,
             main_pc, found, file, build, import_table, descriptors, sections,
             rva, asked_name>>

\* pe.rs 848-852
CheckExists ==
    /\ pe_pc = "exists"
    /\ reads' = Append(reads, Step("exists", 0))
    /\ IF ~file.exists THEN PeFails("File does not exist")
       ELSE pe_pc' = "extension" /\ UNCHANGED outcome
    /\ UNCHANGED <<PeFrame, pe_header, cursor>>

\* pe.rs 854-856
CheckExtension ==
    /\ pe_pc = "extension"
    /\ reads' = Append(reads, Step("extension", 0))
    /\ IF ~ends_with(file.file_name, DotExe)
       THEN PeFails("File is not an executable (.exe)")
       ELSE pe_pc' = "dos" /\ UNCHANGED outcome
    /\ UNCHANGED <<PeFrame, pe_header, cursor>>

\* pe.rs 858-862
ReadDosHeader ==
    /\ pe_pc = "dos"
    /\ reads' = Append(reads, Step("dos_magic", 0))
    /\ LET dos == read_dos_header(file) IN
       IF ~dos.ok THEN PeFails(dos.reason) /\ UNCHANGED cursor
       ELSE /\ pe_pc' = "nt"
            /\ cursor' = LfanewOffset + 4
            /\ UNCHANGED outcome
    /\ UNCHANGED <<PeFrame, pe_header>>

\* pe.rs 864-866
ReadNtHeader ==
    /\ pe_pc = "nt"
    /\ reads' = Append(reads, Step("nt_signature", file.lfanew))
    /\ LET nt == read_nt_header(file) IN
       IF ~nt.ok THEN PeFails(nt.reason) /\ cursor' = file.lfanew
       ELSE /\ pe_pc' = "magic"
            /\ cursor' = file.lfanew + 4 + COFFHeaderSize
            /\ UNCHANGED outcome
    /\ UNCHANGED <<PeFrame, pe_header>>

\* pe.rs 869-896: the magic is read ahead and chooses the variant, which is
\* then read from the same position
ReadOptionalHeader ==
    /\ pe_pc = "magic"
    /\ reads' = Append(reads, Step("optional_magic", cursor))
    /\ IF ~can_read(file.size, cursor, 2) THEN PeFails(Eof) /\ UNCHANGED <<cursor, pe_header>>
       ELSE IF file.optional_magic \notin {PE_FORMAT_32_MAGIC, PE_FORMAT_64_MAGIC}
       THEN PeFails("Invalid PE optional header magic") /\ UNCHANGED <<cursor, pe_header>>
       ELSE LET consumed == IF file.optional_magic = PE_FORMAT_32_MAGIC
                            THEN OptionalHeader32Size ELSE OptionalHeader64Size
            IN IF ~can_read(file.size, cursor, consumed)
               THEN PeFails(Eof) /\ UNCHANGED <<cursor, pe_header>>
               ELSE /\ pe_pc' = "skip"
                    /\ cursor' = cursor + consumed
                    /\ pe_header' = [pe_header EXCEPT
                                        !.start_of_optional_position = cursor,
                                        !.optional_size = consumed]
                    /\ UNCHANGED outcome
    /\ UNCHANGED PeFrame

\* pe.rs 898-901: cursor.position() + (size_of_optional_header - optional_size)
SkipOptionalPadding ==
    /\ pe_pc = "skip"
    /\ LET padding == checked_sub(u64(file.size_of_optional_header),
                                  u64(pe_header.optional_size), build)
           target == checked_add(u64(cursor), padding.value, build)
       IN IF padding.panic
          THEN /\ pe_pc' = "panic"
               /\ outcome' = [kind |-> "panic",
                              reason |-> "attempt to subtract with overflow"]
               /\ UNCHANGED cursor
          ELSE IF target.panic
          THEN /\ pe_pc' = "panic"
               /\ outcome' = [kind |-> "panic",
                              reason |-> "attempt to add with overflow"]
               /\ UNCHANGED cursor
          ELSE /\ pe_pc' = "sections"
               /\ cursor' = position_of(target.value)
               /\ UNCHANGED outcome
    /\ UNCHANGED <<PeFrame, pe_header, reads>>

\* SectionHeader::from_parser: a name that starts with "/" is not implemented,
\* a name that starts with a null byte gives an "empty" header whose other
\* 39 bytes are stepped over unread
read_section_header(f, position) ==
    IF ~can_read(f.size, position, 1) THEN [kind |-> "err", reason |-> Eof]
    ELSE IF f.section = "in_string_table"
    THEN [kind |-> "panic",
          reason |-> "Need to implement section header name finding in string table"]
    ELSE IF f.section = "empty" THEN [kind |-> "ok", reason |-> ""]
    ELSE IF ~can_read(f.size, position, SectionHeaderSize)
    THEN [kind |-> "err", reason |-> Eof]
    ELSE [kind |-> "ok", reason |-> ""]

\* pe.rs 903-928: one section, header and raw data, or the end of the loop
ReadSectionHeader ==
    /\ pe_pc = "sections"
    /\ IF pe_header.sections_read >= file.number_of_sections
       THEN /\ pe_pc' = "imports"
            /\ UNCHANGED <<reads, cursor, pe_header, outcome>>
       ELSE /\ reads' = Append(reads, Step("section_header", cursor))
            /\ LET header == read_section_header(file, cursor) IN
               IF header.kind = "panic"
               THEN /\ pe_pc' = "panic"
                    /\ outcome' = header
                    /\ UNCHANGED <<cursor, pe_header>>
               ELSE IF header.kind = "err"
               THEN PeFails(header.reason) /\ UNCHANGED <<cursor, pe_header>>
               ELSE IF file.section = "raw_data_short"
               THEN /\ PeFails("Could not read all raw data from section")
                    /\ UNCHANGED <<cursor, pe_header>>
               ELSE /\ cursor' = cursor + SectionHeaderSize
                    /\ pe_header' = [pe_header EXCEPT !.sections_read = @ + 1]
                    /\ UNCHANGED <<pe_pc, outcome>>
    /\ UNCHANGED PeFrame

\* pe.rs 930-933: the import table is read and the PE returned
ReadImports ==
    /\ pe_pc = "imports"
    /\ reads' = Append(reads, Step("import_table", cursor))
    /\ pe_pc' = "done"
    /\ outcome' = [kind |-> "ok", reason |-> ""]
    /\ UNCHANGED <<PeFrame, pe_header, cursor>>

PeNext ==
    \/ CheckExists
    \/ CheckExtension
    \/ ReadDosHeader
    \/ ReadNtHeader
    \/ ReadOptionalHeader
    \/ SkipOptionalPadding
    \/ ReadSectionHeader
    \/ ReadImports

PeSpec == PeInit /\ [][PeNext]_vars

(***************************************************************************)
(* C15. parse checks, in this order, that the file exists, that its name   *)
(* carries the executable extension, the DOS magic, the NT signature and   *)
(* the optional-header magic; a file failing several of them is rejected   *)
(* for the first, and no section or import is read unless all five pass.   *)
(***************************************************************************)
CheckNames ==
    <<"exists", "extension", "dos_magic", "nt_signature", "optional_magic">>

CheckMessages ==
    <<"File does not exist", "File is not an executable (.exe)",
      "Invalid DOS magic number", "Invalid PE signature in NT Header",
      "Invalid PE optional header magic">>

\* the checks the file does not pass
FailedChecks ==
    {k \in 1..5 :
        \/ k = 1 /\ ~file.exists
        \/ k = 2 /\ file.file_name # AExe
        \/ k = 3 /\ file.magic # DOS_MAGIC
        \/ k = 4 /\ file.signature # NT_PE_SIGNATURE
        \/ k = 5 /\ file.optional_magic \notin {PE_FORMAT_32_MAGIC, PE_FORMAT_64_MAGIC}}

FirstFailed == CHOOSE k \in FailedChecks : \A j \in FailedChecks : k <= j

\* the headers are all within the file
HeadersInFile == file.size >= file.lfanew + 4 + COFFHeaderSize + OptionalHeader64Size

ChecksInOrder ==
    \* the checks are made in the order given
    /\ LET checks == SelectSeq(reads, LAMBDA r : r.what \in
                                  {CheckNames[k] : k \in 1..5})
       IN \A k \in 1..Len(checks) : checks[k].what = CheckNames[k]
    \* a failed check is reported only if it is the first one the file fails
    /\ \A k \in 1..5 :
          (outcome.kind = "err" /\ outcome.reason = CheckMessages[k]) =>
              (k \in FailedChecks /\ k = FirstFailed)
    \* a file that fails a check is rejected for the first it fails
    /\ (pe_pc = "done" /\ FailedChecks # {} /\ HeadersInFile) =>
          (outcome.kind = "err" /\ outcome.reason = CheckMessages[FirstFailed])
    \* nothing is read of a file that fails a check
    /\ \A k \in 1..Len(reads) :
          reads[k].what \in {"section_header", "import_table"} => FailedChecks = {}

\* a file with a wrong NT signature and a wrong optional-header magic
RejectedForFirstOfSeveral ==
    /\ pe_pc = "done"
    /\ FailedChecks = {4, 5}
    /\ outcome.reason = CheckMessages[4]

(***************************************************************************)
(* API-Set lookups, one after the other, of the forms of one import name:  *)
(* APISet::map called with the form as it is, and the lookup as the engine *)
(* makes it for an import.  reads lists the lookups made.                  *)
(***************************************************************************)
MaxLookups == 2

UpperChar(c) ==
    IF \E k \in 1..26 : LowerChars[k] = c
    THEN UpperChars[CHOOSE k \in 1..26 : LowerChars[k] = c]
    ELSE c

\* str::to_ascii_uppercase
to_ascii_uppercase(s) == [k \in 1..Len(s) |-> UpperChar(s[k])]

\* the name with the letters at some places in upper case
with_upper(s, places) ==
    [k \in 1..Len(s) |-> IF k \in places THEN UpperChar(s[k]) ELSE s[k]]

Forms(name) ==
    { to_ascii_lowercase(name), to_ascii_uppercase(name),
      with_upper(name, {1}), with_upper(name, {Len(name) - 4, Len(name)}) }

\* search.rs 76-80 and 131-134: the name is lowercased, tested for the
\* virtual prefix and only then looked up
APISetLookup(name, apiset) ==
    LET lower == to_ascii_lowercase(name) IN
    IF is_dll_from_apiset_schema(lower)
    THEN apiset_find_dll(lower, apiset)
    ELSE [some |-> FALSE, value |-> <<>>]

Lookup(via, name, answer, mapping) ==
    [via |-> via, name |-> name, result |-> answer, mapping |-> mapping]

LookupInit ==
    /\ apiset_schema \in APISets
    /\ asked_name \in {VDll, UDll, HDll}
    /\ reads = <<>>
    /\ pe_pc = "lookup"
    /\ recurse = FALSE /\ pc = "idle" /\ stack = <<>> /\ cache = EmptyCache
    /\ visited = {} /\ result = NoResult /\ parses = NoParses /\ searched = {}
    /\ disk = MainDisk({}, {}) /\ pe_path = BarePath(AExe) /\ search_paths = <<>>
    /\ MainIdle
    /\ file = NoOutcome /\ pe_header = NoOutcome /\ cursor = 0 /\ build = "release"
    /\ outcome = NoOutcome /\ import_table = <<>> /\ descriptors = <<>>
    /\ sections = <<>> /\ rva = 0

LookupFrame == <<disk, apiset_schema, pe_path, search_paths, recurse, pc, stack,
                 cache, visited, result, parses, searched, env_path,
                 user_search_paths, main_pc, found, file, pe_header, cursor,
                 pe_pc, build, outcome, import_table, descriptors, sections, rva,
                 asked_name>>

\* APISet::map(&self, dll_name)
MapLookup ==
    /\ pe_pc = "lookup"
    /\ Len(reads) < MaxLookups
    /\ \E form \in Forms(asked_name) :
          reads' = Append(reads, Lookup("map", form,
                                        APISet_map(apiset_schema, form),
                                        apiset_schema))
    /\ UNCHANGED LookupFrame

\* the lookup of get_dll_dependencies and get_dll_dependencies_recursive
EngineLookup ==
    /\ pe_pc = "lookup"
    /\ Len(reads) < MaxLookups
    /\ \E form \in Forms(asked_name) :
          reads' = Append(reads, Lookup("engine", form,
                                        APISetLookup(form, apiset_schema),
                                        apiset_schema))
    /\ UNCHANGED LookupFrame

LookupNext == MapLookup \/ EngineLookup

LookupSpec == LookupInit /\ [][LookupNext]_vars

(***************************************************************************)
(* C16. API-Set lookup is case-insensitive and idempotent: the upper-case  *)
(* and the lower-case form of a name get the same answer from the same     *)
(* mapping, a repeated lookup gets the same answer, and the mapping is     *)
(* left as it was.                                                         *)
(***************************************************************************)
SameAnswers(lookups) ==
    \A i, j \in 1..Len(lookups) :
        to_ascii_lowercase(lookups[i].name) = to_ascii_lowercase(lookups[j].name)
            => /\ lookups[i].result = lookups[j].result
               /\ lookups[i].mapping = lookups[j].mapping

MadeBy(via) == SelectSeq(reads, LAMBDA l : l.via = via)

LookupIgnoresCase == pe_pc = "lookup" => SameAnswers(MadeBy("map"))

\* the lookups the engine makes, which lowercase the name first, do agree
EngineLookupIgnoresCase == pe_pc = "lookup" => SameAnswers(MadeBy("engine"))

(***************************************************************************)
(* load_apisetschema_mapping: the schema image at its fixed path is parsed *)
(* like any image and its .apiset section decoded.  The image carries, in  *)
(* apiset, its namespace entries: the name and, with value_count > 0, the  *)
(* host name, both as decoded from UTF-16 with their trailing nulls.       *)
(* /sys stands for C:\Windows\System32.                                    *)
(***************************************************************************)
MaxEntries == 2

Nul == "NUL"

APISetSchemaDLLPath ==
    Path("/sys", <<"a","p","i","s","e","t","s","c","h","e","m","a">> \o DotDll)

\* str::trim_end_matches('\0')
RECURSIVE trim_end_matches(_)
trim_end_matches(s) ==
    IF s # <<>> /\ s[Len(s)] = Nul
    THEN trim_end_matches(SubSeq(s, 1, Len(s) - 1))
    ELSE s

NamespaceEntry(name, value_count, value) ==
    [name |-> name, value_count |-> value_count, value |-> value]

\* parse_apiset over the entries of a well-formed section: an entry with a
\* value is inserted, a later one replacing an earlier one of the same key
RECURSIVE parse_apiset(_, _)
parse_apiset(entries, mapping) ==
    IF entries = <<>> THEN mapping
    ELSE LET asne == Head(entries)
             key == to_ascii_lowercase(trim_end_matches(asne.name))
             host == to_ascii_lowercase(trim_end_matches(asne.value))
         IN parse_apiset(Tail(entries),
                         IF asne.value_count > 0
                         THEN [n \in DOMAIN mapping \cup {key} |->
                                  IF n = key THEN host ELSE mapping[n]]
                         ELSE mapping)

SchemaEntries ==
    { NamespaceEntry(name, count, value) :
        name \in {to_ascii_uppercase(VDll) \o <<Nul>>, UDll},
        count \in {0, 1, 2},
        value \in {HDllMixed \o <<Nul, Nul>>, BExe} }

SchemaImages ==
    [defect : {"none", "dos_magic"}, dll_names : {<<>>},
     apiset : UNION { [1..n -> SchemaEntries] : n \in 0..MaxEntries }]

\* System32 with the schema image, or without it
SchemaDisk(images) ==
    [d \in {"app", "sys"} |->
        IF d = "app" THEN <<Entry(AExe, WellFormed(<<>>))>>
        ELSE <<Entry(HDll, WellFormed(<<>>))>>
             \o [k \in 1..Len(images) |->
                    Entry(APISetSchemaDLLPath.file_name, images[k])]]

LoadInit ==
    /\ disk \in { SchemaDisk(<<image>>) : image \in SchemaImages }
               \cup { SchemaDisk(<<>>) }
    /\ pe_pc = "load"
    /\ outcome = NoOutcome
    /\ EngineIdle
    /\ MainIdle
    /\ pe_path = BarePath(AExe) /\ search_paths = <<>>
    /\ file = NoOutcome /\ pe_header = NoOutcome /\ cursor = 0 /\ build = "release"
    /\ reads = <<>> /\ import_table = <<>> /\ descriptors = <<>>
    /\ sections = <<>> /\ rva = 0 /\ asked_name = <<>>

\* apiset.rs 183-187
load_apisetschema_mapping ==
    /\ pe_pc = "load"
    /\ pe_pc' = "done"
    /\ LET parsed == parse_pe(disk, APISetSchemaDLLPath) IN
       outcome' =
          IF parsed.kind # "ok"
          THEN [kind |-> parsed.kind, reason |-> parsed.reason,
                mapping |-> EmptyAPISet]
          ELSE [kind |-> "ok", reason |-> "",
                mapping |-> parse_apiset(Image(disk, APISetSchemaDLLPath).apiset,
                                         EmptyAPISet)]
    /\ UNCHANGED <<disk, pe_path, search_paths, engine, env_path, user_search_paths,
                   main_pc, found, file, pe_header, cursor, build, reads,
                   import_table, descriptors, sections, rva, asked_name>>

LoadNext == load_apisetschema_mapping

LoadSpec == LoadInit /\ [][LoadNext]_vars

(***************************************************************************)
(* C17. load() parses the schema image at its fixed path, a file named     *)
(* apisetschema.dll, with the parse used for any image and, for a          *)
(* well-formed schema, returns a mapping with exactly one entry for each   *)
(* namespace entry that has a value, key and value lowercased and without  *)
(* trailing nulls, and no entry for a namespace entry without values.      *)
(***************************************************************************)
SchemaIsWellFormed ==
    /\ exists(disk, APISetSchemaDLLPath)
    /\ Image(disk, APISetSchemaDLLPath).defect = "none"

LoadReturnsMapping ==
    (pe_pc = "done" /\ SchemaIsWellFormed) =>
        LET entries == Image(disk, APISetSchemaDLLPath).apiset
            valued == {k \in 1..Len(entries) : entries[k].value_count > 0}
            KeyOf(k) == to_ascii_lowercase(trim_end_matches(entries[k].name))
            HostOf(k) == to_ascii_lowercase(trim_end_matches(entries[k].value))
        IN /\ outcome.kind = "ok"
           /\ DOMAIN outcome.mapping = {KeyOf(k) : k \in valued}
           /\ \A key \in DOMAIN outcome.mapping :
                 \E k \in valued : KeyOf(k) = key /\ HostOf(k) = outcome.mapping[key]

(***************************************************************************)
(* C18. At every point of a recursive resolve the visited set is exactly   *)
(* the set of paths whose frames are active, a frame counting from its     *)
(* visited.insert on: every frame takes its path out however it returns,   *)
(* and the set is empty when the top-level call has returned.              *)
(***************************************************************************)
InsertedFrames == { stack[k].pe_path : k \in {j \in 1..Len(stack) :
                                                 stack[j].phase # "enter"} }

VisitedIsTheActiveStack ==
    recurse =>
        /\ pc = "running" => visited = InsertedFrames
        /\ pc = "done" => visited = {}

(***************************************************************************)
(* C19. Without a zero descriptor in the table the parse stops at the hard *)
(* cap: parse_import_descriptors never returns more than 256 descriptors,  *)
(* whatever the buffer holds.                                              *)
(***************************************************************************)
AtMostCapDescriptors ==
    (pe_pc = "done" /\ outcome.kind = "ok") => Len(descriptors) <= ImportCap

(***************************************************************************)
(* C20. For every optional-header size the COFF header declares, one       *)
(* smaller than the 224 or 240 bytes the reader consumed included, the     *)
(* cursor is at the start of the optional header plus the declared size    *)
(* when the first section header is read.                                  *)
(***************************************************************************)
SkipPanics == {"attempt to subtract with overflow", "attempt to add with overflow"}

SectionsStartAtDeclaredSize ==
    \* with a section header to read, the step over the padding is made
    /\ (outcome.kind = "panic" /\ file.number_of_sections > 0) =>
          outcome.reason \notin SkipPanics
    \* and the first section header is read where the declared size ends
    /\ \A k \in 1..Len(reads) :
          (/\ reads[k].what = "section_header"
           /\ \A j \in 1..(k - 1) : reads[j].what # "section_header")
          => reads[k].at = pe_header.start_of_optional_position
                           + file.size_of_optional_header

(***************************************************************************)
(* C21. When the file ends in the middle of a structure, the import        *)
(* descriptor array included, the parse returns an error value for that    *)
(* file: it never ends in a panic.                                         *)
(***************************************************************************)
\* the file ends before the table's zero descriptor and before the cap
TableCutShort ==
    /\ pe_header.import_table.some
    /\ Len(import_table) <= ImportCap
    /\ \A k \in 1..Len(import_table) : ~AllZero(import_table[k])

TruncatedTableIsAnError ==
    (pe_pc \in {"done", "panic"} /\ TableCutShort) => outcome.kind = "err"

(***************************************************************************)
(* Locating the import directory: parse_import_descriptors translates the  *)
(* table's RVA, parse_dll_names the name RVA of each descriptor, and reads *)
(* the name there up to its null byte.  descriptors holds what the table   *)
(* gave: for each descriptor its name_rva and the bytes at the name.       *)
(***************************************************************************)
NamedImport(name_rva, bytes) == [name_rva |-> name_rva, bytes |-> bytes]

\* [0x1000, 0x2000), [0x2000, 0x4000) and a range that ends at 2^32
DirectorySections ==
    { SectionHeader(u32(0, 4096), u32(0, 4096), u32(0, 1024)),
      SectionHeader(u32(0, 8192), u32(0, 8192), u32(0, 2048)),
      SectionHeader(u32(65535, 61440), u32(0, 4096), u32(0, 3072)) }

NamedImports ==
    { NamedImport(r, b) : r \in {u32(0, 0), u32(0, 4100)},
                          b \in {"terminated", "unterminated", "not_utf8"} }

\* the bytes at a name: up to the null byte, or to the end of the file
read_name(bytes) ==
    IF bytes = "unterminated" THEN [kind |-> "err", reason |-> Eof]
    ELSE IF bytes = "not_utf8"
    THEN [kind |-> "panic", reason |-> "Invalid name found in import names"]
    ELSE [kind |-> "ok", reason |-> ""]

DirectoryInit ==
    /\ sections \in UNION { [1..n -> DirectorySections] : n \in 0..MaxSections }
    /\ rva \in { u32(0, 0), u32(0, 4096), u32(0, 16384), u32(65535, 61440) }
    /\ descriptors \in UNION { [1..n -> NamedImports] : n \in 0..2 }
    /\ build \in Builds
    /\ pe_pc = "locate"
    /\ cursor = 0
    /\ outcome = NoOutcome
    /\ reads = <<>>
    /\ file = NoOutcome /\ pe_header = NoOutcome /\ import_table = <<>>
    /\ asked_name = <<>>
    /\ MainIdle
    /\ EngineIdle
    /\ disk = MainDisk({}, {}) /\ pe_path = BarePath(AExe) /\ search_paths = <<>>

DirectoryFrame == <<disk, pe_path, search_paths, engine, env_path,
                    user_search_paths, main_pc, found, file, pe_header, build,
                    import_table, descriptors, sections, rva, asked_name>>

DirectoryEnds(kind, reason) ==
    /\ pe_pc' = IF kind = "panic" THEN "panic" ELSE "done"
    /\ outcome' = [kind |-> kind, reason |-> reason]

\* pe.rs 785-791
LocateImportTable ==
    /\ pe_pc = "locate"
    /\ LET file_offset == convert_rva_to_file_offset(sections, rva, build) IN
       IF file_offset.kind = "panic"
       THEN DirectoryEnds("panic", "attempt to add with overflow")
       ELSE IF file_offset.kind = "none"
       THEN DirectoryEnds("err", "Import Table RVA does not map to any section")
       ELSE pe_pc' = "names" /\ UNCHANGED outcome
    /\ UNCHANGED <<DirectoryFrame, cursor, reads>>

\* pe.rs 820-840: the name of the next descriptor, or the end of the loop
ReadDllName ==
    /\ pe_pc = "names"
    /\ IF Len(reads) >= Len(descriptors)
       THEN DirectoryEnds("ok", "") /\ UNCHANGED <<cursor, reads>>
       ELSE LET import_descriptor == descriptors[Len(reads) + 1]
                file_offset == convert_rva_to_file_offset(
                                   sections, import_descriptor.name_rva, build)
                name == read_name(import_descriptor.bytes)
            IN IF file_offset.kind = "panic"
               THEN /\ DirectoryEnds("panic", "attempt to add with overflow")
                    /\ UNCHANGED <<cursor, reads>>
               ELSE IF file_offset.kind = "none"
               THEN /\ DirectoryEnds("err",
                          "Import Descriptor Name RVA does not map to any section")
                    /\ UNCHANGED <<cursor, reads>>
               ELSE /\ cursor' = position_of(file_offset.value)
                    /\ IF name.kind = "ok"
                       THEN /\ reads' = Append(reads, Step("dll_name", cursor'))
                            /\ UNCHANGED <<pe_pc, outcome>>
                       ELSE /\ DirectoryEnds(name.kind, name.reason)
                            /\ UNCHANGED reads
    /\ UNCHANGED DirectoryFrame

DirectoryNext == LocateImportTable \/ ReadDllName

DirectorySpec == DirectoryInit /\ [][DirectoryNext]_vars

(***************************************************************************)
(* C22. The import directory is located unconditionally: an import table   *)
(* RVA in no section's range, RVA 0 of an image without imports included,  *)
(* makes the parse fail with the unmapped-RVA error, and so does a         *)
(* descriptor's name RVA in no section's range; no image is returned.      *)
(***************************************************************************)
DirectoryParsed == pe_pc \in {"done", "panic"}

\* the first descriptor whose name RVA is in no section's range, when the
\* names before it are read whole
FirstUnmappedName(k) ==
    /\ Holding(descriptors[k].name_rva) = {}
    /\ \A j \in 1..(k - 1) :
          /\ Holding(descriptors[j].name_rva) # {}
          /\ descriptors[j].bytes = "terminated"

UnmappedDirectoryIsAnError ==
    DirectoryParsed =>
        /\ Holding(rva) = {} =>
              outcome = [kind |-> "err",
                         reason |-> "Import Table RVA does not map to any section"]
        /\ \A k \in 1..Len(descriptors) :
              (Holding(rva) # {} /\ FirstUnmappedName(k)) =>
                  /\ outcome.kind = "err"
                  /\ outcome.reason \in
                        {"Import Table RVA does not map to any section",
                         "Import Descriptor Name RVA does not map to any section"}

(***************************************************************************)
(* find_dll on its own, over directories that also hold entries that are   *)
(* not regular files and files whose name only ends with the name asked.   *)
(***************************************************************************)
MaxListed == 3

XHDll == <<"x">> \o HDll

\* a directory entry that is not a regular file
NonRegular(file_name) ==
    [file_name |-> file_name, is_file |-> FALSE, image |-> WellFormed(<<>>)]

Listed == { Entry(HDll, WellFormed(<<>>)), Entry(XHDll, WellFormed(<<>>)),
            NonRegular(HDll), Entry(AExe, WellFormed(<<>>)) }

\* the listings of /app, in every enumeration order
Listings == UNION { [1..n -> Listed] : n \in 0..MaxListed }

FindDisk(app, sys) == [d \in {"app", "sys"} |-> IF d = "app" THEN app ELSE sys]

FindInit ==
    /\ \E app \in Listings, sys \in {<<>>, <<Entry(HDll, WellFormed(<<>>))>>} :
          disk = FindDisk(app, sys)
    /\ search_paths \in { <<>>, <<"/app">>, <<"/gone", "/app", "/sys">>,
                          <<"/sys", "/app">>, <<"/gone">> }
    /\ asked_name \in {HDll, XHDll, MDll}
    /\ main_pc = MainAt("find", 0)
    /\ found = NoOutcome
    /\ env_path = <<>> /\ user_search_paths = <<>>
    /\ EngineIdle
    /\ pe_path = BarePath(AExe)
    /\ file = NoOutcome /\ pe_header = NoOutcome /\ cursor = 0 /\ pe_pc = "idle"
    /\ build = "release" /\ outcome = NoOutcome /\ reads = <<>>
    /\ import_table = <<>> /\ descriptors = <<>> /\ sections = <<>> /\ rva = 0

\* search.rs 6-55
FindDll ==
    /\ main_pc.at = "find"
    /\ found' = find_dll(disk, asked_name, search_paths)
    /\ main_pc' = MainAt("found", 0)
    /\ UNCHANGED <<disk, pe_path, env_path, user_search_paths, search_paths,
                   asked_name, engine, reader>>

FindNext == FindDll

FindSpec == FindInit /\ [][FindNext]_vars

(***************************************************************************)
(* C23. find_dll returns the path of the first entry, in the order of the  *)
(* locations and of each location's enumeration, that is a regular file    *)
(* whose name ends with the name asked; entries that are not regular files *)
(* are never returned, a location that cannot be enumerated is skipped,    *)
(* and the result is not-found when no entry qualifies.                    *)
(***************************************************************************)
\* place <<k, j>>: entry j of location k is a regular file that ends with name
Qualifying ==
    { place \in (1..Len(search_paths)) \X (1..MaxListed + 1) :
        LET listing == read_dir(disk, search_paths[place[1]]) IN
        /\ listing.ok
        /\ place[2] <= Len(listing.entries)
        /\ listing.entries[place[2]].is_file
        /\ ends_with(listing.entries[place[2]].file_name, asked_name) }

Before(p, q) == p[1] < q[1] \/ (p[1] = q[1] /\ p[2] <= q[2])

FirstRegularSuffixMatch ==
    main_pc.at = "found" =>
        /\ Qualifying = {} => ~found.ok
        /\ \A place \in Qualifying :
              (\A other \in Qualifying : Before(place, other)) =>
                  /\ found.ok
                  /\ found.path =
                        Path(search_paths[place[1]],
                             read_dir(disk, search_paths[place[1]])
                                 .entries[place[2]].file_name)

\* a file that only ends with the name is found in the second location that
\* can be listed, behind an entry of the very name that is not a regular file
SuffixMatchBehindDirectory ==
    /\ main_pc.at = "found"
    /\ asked_name = HDll
    /\ search_paths = <<"/gone", "/app", "/sys">>
    /\ disk["app"] = <<NonRegular(HDll), Entry(AExe, WellFormed(<<>>)),
                       Entry(XHDll, WellFormed(<<>>))>>
    /\ found.ok
    /\ found.path = Path("/app", XHDll)

(***************************************************************************)
(* parse_apiset at the level of the bytes of the names: each name and each *)
(* value is a buffer of its declared length, cut into u16 units by         *)
(* align_to and decoded by String::from_utf16.                             *)
(***************************************************************************)
MaxNamespace == 2

NamespaceError == "Error while trying to read name of APISetNamespaceEntry"

\* slice::align_to::<u16> of a byte buffer: the bytes before the first
\* 2-aligned address, the whole units, and the bytes left over. An empty Vec
\* holds no allocation; where an allocation starts is the allocator's choice.
align_to(bytes, aligned) ==
    LET offset == IF aligned THEN 0 ELSE 1 IN
    IF offset > Len(bytes)
    THEN [front |-> bytes, slice |-> <<>>, back |-> <<>>]
    ELSE LET rest == SubSeq(bytes, offset + 1, Len(bytes))
             n == Len(rest) \div 2
         IN [front |-> SubSeq(bytes, 1, offset),
             slice |-> [k \in 1..n |-> rest[2 * k - 1] + 256 * rest[2 * k]],
             back |-> SubSeq(rest, 2 * n + 1, Len(rest))]

HighSurrogate(unit) == unit \in 55296..56319
LowSurrogate(unit) == unit \in 56320..57343

\* the character of a code point, in the alphabet of the model's strings
CharOf(code) ==
    IF code = 0 THEN Nul
    ELSE IF code = 65 THEN "A"
    ELSE IF code = 97 THEN "a"
    ELSE ToString(code)

\* String::from_utf16: a surrogate that is not half of a pair is an error
RECURSIVE from_utf16(_)
from_utf16(units) ==
    IF units = <<>> THEN [ok |-> TRUE, text |-> <<>>]
    ELSE IF HighSurrogate(units[1])
    THEN IF Len(units) >= 2 /\ LowSurrogate(units[2])
         THEN LET rest == from_utf16(SubSeq(units, 3, Len(units))) IN
              [ok |-> rest.ok,
               text |-> <<CharOf(65536 + (units[1] - 55296) * 1024
                                       + (units[2] - 56320))>> \o rest.text]
         ELSE [ok |-> FALSE, text |-> <<>>]
    ELSE IF LowSurrogate(units[1]) THEN [ok |-> FALSE, text |-> <<>>]
    ELSE LET rest == from_utf16(Tail(units)) IN
         [ok |-> rest.ok, text |-> <<CharOf(units[1])>> \o rest.text]

\* apiset.rs 146-152 and 163-169: the text of a buffer, or how reading it ends
read_text(bytes, aligned) ==
    LET parts == align_to(bytes, aligned)
        text == from_utf16(parts.slice)
    IN IF parts.front # <<>> /\ parts.back # <<>>
       THEN [kind |-> "err", reason |-> NamespaceError, text |-> <<>>]
       ELSE IF ~text.ok
       THEN [kind |-> "panic", reason |-> "Invalid utf-16 name", text |-> <<>>]
       ELSE [kind |-> "ok", reason |-> "", text |-> text.text]

NameBytes == { <<97, 0>>, <<97, 0, 65>>, <<0, 216>>, <<0, 216, 0, 220>> }
ValueBytes == { <<65, 0, 0, 0>>, <<65>>, <<0, 220>> }

NamespaceEntries ==
    { NamespaceEntry(name, 0, <<>>) : name \in NameBytes }
    \cup { NamespaceEntry(name, 1, value) : name \in NameBytes, value \in ValueBytes }

NamespaceInit ==
    /\ file \in [entries : UNION { [1..n -> NamespaceEntries] : n \in 1..MaxNamespace }]
    /\ cursor = 0
    /\ pe_pc = "namespace"
    /\ outcome = [kind |-> "none", reason |-> "", mapping |-> EmptyAPISet]
    /\ reads = <<>>
    /\ EngineIdle
    /\ MainIdle
    /\ disk = SchemaDisk(<<>>)
    /\ pe_path = BarePath(AExe) /\ search_paths = <<>>
    /\ pe_header = NoOutcome /\ build = "release"
    /\ import_table = <<>> /\ descriptors = <<>>
    /\ sections = <<>> /\ rva = 0 /\ asked_name = <<>>

NamespaceFrame ==
    UNCHANGED <<disk, pe_path, search_paths, engine, env_path, user_search_paths,
                main_pc, found, file, pe_header, build, import_table,
                descriptors, sections, rva, asked_name>>

NamespaceEnds(kind, reason) ==
    /\ pe_pc' = IF kind = "panic" THEN "panic" ELSE "done"
    /\ outcome' = [kind |-> kind, reason |-> reason, mapping |-> EmptyAPISet]
    /\ cursor' = cursor

\* apiset.rs 138-178: one turn of the loop over the namespace entries
ReadNamespaceEntry ==
    /\ pe_pc = "namespace"
    /\ cursor < Len(file.entries)
    /\ \E name_aligned \in BOOLEAN, value_aligned \in BOOLEAN :
          LET asne == file.entries[cursor + 1]
              name_parts == align_to(asne.name, name_aligned)
              value_parts == align_to(asne.value, value_aligned)
              api_set_name == read_text(asne.name, name_aligned)
              host_dll_name == read_text(asne.value, value_aligned)
              key == to_ascii_lowercase(trim_end_matches(api_set_name.text))
              host == to_ascii_lowercase(trim_end_matches(host_dll_name.text))
          IN IF api_set_name.kind # "ok"
             THEN /\ NamespaceEnds(api_set_name.kind, api_set_name.reason)
                  /\ reads' = Append(reads, name_parts)
             ELSE IF asne.value_count = 0
             THEN /\ cursor' = cursor + 1
                  /\ reads' = Append(reads, name_parts)
                  /\ UNCHANGED <<outcome, pe_pc>>
             ELSE IF host_dll_name.kind # "ok"
             THEN /\ NamespaceEnds(host_dll_name.kind, host_dll_name.reason)
                  /\ reads' = reads \o <<name_parts, value_parts>>
             ELSE /\ cursor' = cursor + 1
                  /\ reads' = reads \o <<name_parts, value_parts>>
                  /\ outcome' =
                        [outcome EXCEPT !.mapping =
                            [n \in DOMAIN outcome.mapping \cup {key} |->
                                IF n = key THEN host ELSE outcome.mapping[n]]]
                  /\ pe_pc' = pe_pc
    /\ NamespaceFrame

\* apiset.rs 180
ReturnAPISet ==
    /\ pe_pc = "namespace"
    /\ cursor = Len(file.entries)
    /\ pe_pc' = "done"
    /\ outcome' = [outcome EXCEPT !.kind = "ok"]
    /\ UNCHANGED <<cursor, reads>>
    /\ NamespaceFrame

NamespaceNext == ReadNamespaceEntry \/ ReturnAPISet

NamespaceSpec == NamespaceInit /\ [][NamespaceNext]_vars

(***************************************************************************)
(* C24. A name or value whose length is not a whole number of UTF-16 code  *)
(* units, or whose bytes are not well-formed UTF-16, makes the load fail   *)
(* with the invalid-format error: no byte is dropped, nothing is inserted. *)
(***************************************************************************)
OddLength(bytes) == Len(bytes) % 2 = 1

IllFormed(bytes) == ~OddLength(bytes) /\ ~from_utf16(align_to(bytes, TRUE).slice).ok

InvalidText(asne) ==
    \/ OddLength(asne.name) \/ IllFormed(asne.name)
    \/ asne.value_count > 0 /\ (OddLength(asne.value) \/ IllFormed(asne.value))

InvalidTextIsAnError ==
    (/\ pe_pc \in {"done", "panic"}
     /\ \E k \in 1..Len(file.entries) : InvalidText(file.entries[k]))
    => /\ outcome.kind = "err"
       /\ outcome.reason = NamespaceError
       /\ \A k \in 1..Len(reads) : reads[k].front = <<>> /\ reads[k].back = <<>>

(***************************************************************************)
(* C25. During a recursive resolve no path is both a key of the cache and  *)
(* a member of the visited set: a path enters the visited set only when it *)
(* is not cached, a node is stored under a path only in the step that      *)
(* takes the path out of the visited set, and what is stored is a resolved *)
(* node, never an error.                                                   *)
(***************************************************************************)
CachedAndVisitedApart ==
    /\ DOMAIN cache \cap visited = {}
    /\ \A p \in DOMAIN cache :
          cache[p].path = p /\ cache[p].dependencies.tag = "array"

EntersVisitedUncached == \A p \in visited' \ visited : p \notin DOMAIN cache

StoredOnLeavingVisited ==
    \A p \in DOMAIN cache' :
        (p \notin DOMAIN cache \/ cache'[p] # cache[p])
            => p \in visited /\ p \notin visited'

ErrorsAreNotStored ==
    (pc = "running" /\ (CacheGet(cache, Top.pe_path).some \/ Top.phase = "enter"))
        => cache' = cache

CacheDisjointFromVisited ==
    /\ [](recurse => CachedAndVisitedApart)
    /\ [][recurse => /\ EntersVisitedUncached
                     /\ StoredOnLeavingVisited
                     /\ ErrorsAreNotStored]_vars

\* a resolve ends with a cached library and a path a failed parse left behind
CachedBesideLeftover ==
    /\ recurse /\ pc = "running"
    /\ DOMAIN cache # {}
    /\ \E p \in visited : p \notin InsertedFrames
    /\ Entering /\ CacheGet(cache, Top.pe_path).some

(***************************************************************************)
(* get_dll_dependencies_recursive as a function of the path, the cache and *)
(* the visited set it is called with: what it returns and what it leaves   *)
(* in the cache and in the visited set.                                    *)
(***************************************************************************)
Walked(r, c, v, panic) == [r |-> r, cache |-> c, visited |-> v, panic |-> panic]

RECURSIVE get_dll_dependencies_recursive(_, _, _)
RECURSIVE ImportLoop(_, _, _, _, _)

\* search.rs 130-168: the loop over pe.dll_names from the i-th name on
ImportLoop(dll_names, i, c, v, dependencies) ==
    IF i > Len(dll_names) THEN Walked(Ok(NoObject), c, v, FALSE) @@ [items |-> dependencies]
    ELSE LET lower == to_ascii_lowercase(dll_names[i])
             hit == find_dll(disk, ActualDllName(lower, apiset_schema), search_paths)
         IN IF ~hit.ok
            THEN ImportLoop(dll_names, i + 1, c, v,
                            Push(dependencies, NotFoundObject(lower)))
            ELSE LET call == get_dll_dependencies_recursive(hit.path, c, v) IN
                 IF call.panic THEN call @@ [items |-> dependencies]
                 ELSE ImportLoop(dll_names, i + 1, call.cache, call.visited,
                                 Push(dependencies,
                                      DepObject(call.r, lower, hit.path)))

\* search.rs 102-181
get_dll_dependencies_recursive(path, c, v) ==
    IF CacheGet(c, path).some THEN Walked(Ok(CacheGet(c, path).value), c, v, FALSE)
    ELSE IF ~VisitedInsert(v, path).inserted
    THEN Walked(Err(CircularError(path)), c, v, FALSE)
    ELSE LET entered == VisitedInsert(v, path).set
             pe == parse_pe(disk, path)
         IN IF pe.kind = "panic" THEN Walked(Err(NoError), c, entered, TRUE)
            ELSE IF pe.kind = "err"
            THEN Walked(Err(ParseError(path, pe.reason)), c, entered, FALSE)
            ELSE LET loop == ImportLoop(pe.dll_names, 1, c, entered, <<>>)
                     node == Object(pe_name_of(path), path, DepsArray(loop.items))
                 IN IF loop.panic THEN Walked(Err(NoError), loop.cache, loop.visited, TRUE)
                    ELSE Walked(Ok(node), CacheInsert(loop.cache, path, node),
                                loop.visited \ {path}, FALSE)

\* resolve_dependencies(path, .., recurse = true) on the same installation
FreshResolve(path) == get_dll_dependencies_recursive(path, EmptyCache, {})

\* the walk in steps returns what the function returns
WalkIsTheFunction ==
    (recurse /\ pc \in {"done", "panic"}) =>
        LET fresh == FreshResolve(pe_path) IN
        /\ fresh.panic <=> pc = "panic"
        /\ pc = "done" => result = Returned(fresh.r) /\ cache = fresh.cache
                          /\ visited = fresh.visited

(***************************************************************************)
(* C26. The node the cache holds for a path is the tree a fresh recursive  *)
(* resolve of that path gives on the same files, search paths and mapping: *)
(* it depends neither on the callers that were on the stack when the path  *)
(* was first resolved nor on the order of the imports around it.           *)
(***************************************************************************)
CachedNodeIsFreshResolve ==
    recurse =>
        \A p \in DOMAIN cache :
            /\ ~FreshResolve(p).panic
            /\ FreshResolve(p).r = Ok(cache[p])

(***************************************************************************)
(* The section table: the loop of parse_pe that reads the section headers  *)
(* and stores each section under its name, and the translation of an RVA   *)
(* over what is stored.                                                    *)
(***************************************************************************)
SectionNameSize == 8

\* the bytes of a name field: the text, padded with nulls
NameField(text) ==
    [k \in 1..SectionNameSize |-> IF k <= Len(text) THEN text[k] ELSE Nul]

RawSectionHeader(name, virtual_address, virtual_size, ptr_to_raw_data) ==
    [name |-> name, virtual_address |-> virtual_address,
     virtual_size |-> virtual_size, ptr_to_raw_data |-> ptr_to_raw_data]

\* the bytes of a name that are not null, in order
RECURSIVE WithoutNulls(_)
WithoutNulls(bytes) ==
    IF bytes = <<>> THEN <<>>
    ELSE IF Head(bytes) = Nul THEN WithoutNulls(Tail(bytes))
    ELSE <<Head(bytes)>> \o WithoutNulls(Tail(bytes))

\* pe.rs 401-446 on a header the file holds in full
section_header_of(raw) ==
    IF raw.name[1] = "/"
    THEN [kind |-> "panic",
          reason |-> "Need to implement section header name finding in string table",
          header |-> RawSectionHeader(<<>>, u32(0, 0), u32(0, 0), u32(0, 0))]
    ELSE IF raw.name[1] = Nul
    THEN [kind |-> "ok", reason |-> "",
          header |-> RawSectionHeader(<<"e","m","p","t","y">>,
                                      u32(0, 0), u32(0, 0), u32(0, 0))]
    ELSE [kind |-> "ok", reason |-> "",
          header |-> [raw EXCEPT !.name = WithoutNulls(raw.name)]]

\* HashMap::insert: a section stored under the name replaces the one there
SectionsInsert(map, name, section) ==
    [n \in DOMAIN map \cup {name} |-> IF n = name THEN section ELSE map[n]]

NoSections == [n \in {} |-> RawSectionHeader(<<>>, u32(0, 0), u32(0, 0), u32(0, 0))]

SectionNames == { NameField(<<".","t">>), NameField(<<".",Nul,"t">>),
                  NameField(<<".","i">>), NameField(<<>>), NameField(<<"/","4">>) }

RawSectionHeaders ==
    { RawSectionHeader(name, a, u32(0, 4096), u32(0, 1024)) :
        name \in SectionNames, a \in { u32(0, 4096), u32(0, 8192) } }

\* the orders in which HashMap::values may hand out the sections
ValueOrders(map) ==
    { order \in [1..Cardinality(DOMAIN map) -> DOMAIN map] :
        \A n \in DOMAIN map : \E k \in DOMAIN order : order[k] = n }

SectionsInit ==
    /\ file \in [headers : UNION { [1..n -> RawSectionHeaders] : n \in 1..MaxSections }]
    /\ rva \in { u32(0, 4096), u32(0, 8192 + 16) }
    /\ build \in Builds
    /\ sections = NoSections
    /\ cursor = 0
    /\ pe_pc = "sections"
    /\ outcome = NoOutcome
    /\ pe_header = NoOutcome /\ reads = <<>>
    /\ import_table = <<>> /\ descriptors = <<>> /\ asked_name = <<>>
    /\ MainIdle
    /\ EngineIdle
    /\ disk = MainDisk({}, {}) /\ pe_path = BarePath(AExe) /\ search_paths = <<>>

SectionsFrame ==
    UNCHANGED <<disk, pe_path, search_paths, engine, env_path, user_search_paths,
                main_pc, found, file, pe_header, build, reads, import_table,
                descriptors, rva, asked_name>>

\* pe.rs 903-928: one turn of the loop over the section headers
InsertSection ==
    /\ pe_pc = "sections"
    /\ cursor < Len(file.headers)
    /\ LET section_header == section_header_of(file.headers[cursor + 1]) IN
       IF section_header.kind = "panic"
       THEN /\ pe_pc' = "panic"
            /\ outcome' = [kind |-> "panic", reason |-> section_header.reason]
            /\ UNCHANGED <<cursor, sections>>
       ELSE /\ sections' = SectionsInsert(sections, section_header.header.name,
                                          section_header.header)
            /\ cursor' = cursor + 1
            /\ UNCHANGED <<pe_pc, outcome>>
    /\ SectionsFrame

\* pe.rs 903: the loop ends after number_of_sections turns
SectionsRead ==
    /\ pe_pc = "sections"
    /\ cursor = Len(file.headers)
    /\ pe_pc' = "translate"
    /\ UNCHANGED <<cursor, sections, outcome>>
    /\ SectionsFrame

\* pe.rs 761-773 over the sections stored
TranslateRva ==
    /\ pe_pc = "translate"
    /\ \E order \in ValueOrders(sections) :
          outcome' = convert_rva_to_file_offset(
                        [k \in DOMAIN order |-> sections[order[k]]], rva, build)
    /\ pe_pc' = "done"
    /\ UNCHANGED <<cursor, sections>>
    /\ SectionsFrame

SectionsNext == InsertSection \/ SectionsRead \/ TranslateRva

SectionsSpec == SectionsInit /\ [][SectionsNext]_vars

(***************************************************************************)
(* C27. After a successful parse the sections stored are as many as the    *)
(* section headers read, number_of_sections, so that the virtual range of  *)
(* every section takes part in the translation of an RVA, also when two    *)
(* headers carry one name.                                                 *)
(***************************************************************************)
\* the header read in the k-th turn
HeaderRead(k) == section_header_of(file.headers[k]).header

EverySectionIsStored ==
    /\ pe_pc \in {"translate", "done"} =>
          Cardinality(DOMAIN sections) = Len(file.headers)
    /\ pe_pc = "done" =>
          \A k \in 1..Len(file.headers) :
              InRange(HeaderRead(k), rva) => outcome.kind = "some"

(***************************************************************************)
(* C28. The two modes agree at depth 1: for every root image, search path  *)
(* list and API-set mapping the i-th child of the root in recursive mode   *)
(* carries the path of the i-th dependency entry in non-recursive mode,    *)
(* "<unknown>" in both when the import is not resolved.                    *)
(***************************************************************************)
\* the entries the other mode gives for the root of this run
OtherModeEntries ==
    IF recurse
    THEN FlatEntries(disk, parse_pe(disk, pe_path).dll_names, search_paths,
                     apiset_schema)
    ELSE Items(FreshResolve(pe_path).r.value)

BothModesReturn ==
    /\ ReturnedTree
    /\ ~FreshResolve(pe_path).panic
    /\ FreshResolve(pe_path).r.ok

ModesAgreeAtDepthOne ==
    BothModesReturn =>
        /\ Len(Items(Tree)) = Len(OtherModeEntries)
        /\ \A i \in 1..Len(Items(Tree)) :
              Items(Tree)[i].path = OtherModeEntries[i].path

====
